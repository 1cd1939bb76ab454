------------------------------- MODULE MCSvid -------------------------------
(***************************************************************************)
(* A small instance of Svid for TLC.                                       *)
(***************************************************************************)
EXTENDS Svid

Audience(name, presence, maxAge) ==
    [name |-> name, presence |-> presence, maxAge |-> maxAge, valid |-> TRUE]

MCAudienceLists ==
    { <<Audience("a", PresenceNone, {})>>,
      <<Audience("a", PresenceNone, {2}), Audience("b", PresenceHardware, {})>> }
=============================================================================
