------------------------------ MODULE SpiffeUri ------------------------------
(***************************************************************************)
(* SPIFFE IDs as text (hire-core/src/spiffe_id.rs).  A string is a sequence of     *)
(* tokens: labels, the two separators, and one token for every character a trust   *)
(* domain may not hold.  Labels that touch are one longer label.                  *)
(***************************************************************************)
EXTENDS Naturals, Sequences

CONSTANT MaxTokens      \* bound on the text

VARIABLES
    scheme,     \* whether the text starts with spiffe://
    text        \* the tokens after it

vars == <<scheme, text>>

Labels == {"tailscale", "ssh", "pgp", "local", "oidc", "personal", "piv"}
Tokens == Labels \cup {".", "/", "illegal"}

Init == scheme = TRUE /\ text = << >>

\* Someone writes a SPIFFE ID.
Write ==
    \/ scheme' = FALSE /\ scheme /\ UNCHANGED text
    \/ /\ Len(text) < MaxTokens
       /\ \E t \in Tokens : text' = Append(text, t)
       /\ UNCHANGED scheme

Next == Write

Spec == Init /\ [][Next]_vars

-----------------------------------------------------------------------------

\* split_once: what stands before and after the first separator, if there is one.
SplitOnce(s, sep) ==
    LET at == {i \in DOMAIN s : s[i] = sep /\ \A j \in 1..i - 1 : s[j] # sep}
    IN  {<<SubSeq(s, 1, i - 1), SubSeq(s, i + 1, Len(s))>> : i \in at}

Prefix == [k \in {"OrgOidc", "PersonalDid", "PivIssuer"} |->
    IF k = "OrgOidc" THEN "oidc" ELSE IF k = "PersonalDid" THEN "personal" ELSE "piv"]

\* A slip in DisplayDomain: the issuer's domain is written as it is.
DisplayDomainBare(d) ==
    CASE d.kind = "Tailscale" -> <<"tailscale">>
      [] d.kind = "SshLocal" -> <<"ssh", ".", "local">>
      [] d.kind = "PgpLocal" -> <<"pgp", ".", "local">>
      [] d.kind = "OrgOidc" -> d.value
      [] OTHER -> <<Prefix[d.kind], ".">> \o d.value

\* Display of TrustDomain.
DisplayDomain(d) ==
    CASE d.kind = "Tailscale" -> <<"tailscale">>
      [] d.kind = "SshLocal" -> <<"ssh", ".", "local">>
      [] d.kind = "PgpLocal" -> <<"pgp", ".", "local">>
      [] OTHER -> <<Prefix[d.kind], ".">> \o d.value

\* uri, and Display of SpiffeId.
Uri(id) == DisplayDomain(id.domain) \o <<"/">> \o id.path

Err(e) == [err |-> e]
IsErr(r) == DOMAIN r = {"err"}
Fixed(k) == [kind |-> k, value |-> << >>]

\* A slip in ParseDomain: the prefix need not be a whole label.
ParseDomainByPrefix(s) ==
    LET named == {k \in DOMAIN Prefix : Len(s) > 1 /\ s[1] = Prefix[k]}
    IN  IF s = << >> THEN Err("MissingTrustDomain")
        ELSE IF \E i \in DOMAIN s : s[i] \in {"/", "illegal"} THEN Err("IllegalTrustDomain")
        ELSE IF s = <<"tailscale">> THEN Fixed("Tailscale")
        ELSE IF s = <<"ssh", ".", "local">> THEN Fixed("SshLocal")
        ELSE IF s = <<"pgp", ".", "local">> THEN Fixed("PgpLocal")
        ELSE IF named = {} THEN Err("UnknownTrustDomain")
        ELSE [kind |-> CHOOSE k \in named : TRUE, value |-> SubSeq(s, 2, Len(s))]

\* from_str of TrustDomain.
ParseDomain(s) ==
    LET split == SplitOnce(s, ".")
        named == {k \in DOMAIN Prefix : \E p \in split : p[1] = <<Prefix[k]>> /\ p[2] # << >>}
    IN  IF s = << >> THEN Err("MissingTrustDomain")
        ELSE IF \E i \in DOMAIN s : s[i] \in {"/", "illegal"} THEN Err("IllegalTrustDomain")
        ELSE IF s = <<"tailscale">> THEN Fixed("Tailscale")
        ELSE IF s = <<"ssh", ".", "local">> THEN Fixed("SshLocal")
        ELSE IF s = <<"pgp", ".", "local">> THEN Fixed("PgpLocal")
        ELSE IF named = {} THEN Err("UnknownTrustDomain")
        ELSE [kind |-> CHOOSE k \in named : TRUE, value |-> (CHOOSE p \in split : TRUE)[2]]

\* from_str of SpiffeId.
Parse(hasScheme, s) ==
    LET split == SplitOnce(s, "/")
        parts == CHOOSE p \in split : TRUE
        domain == ParseDomain(parts[1])
    IN  IF ~hasScheme THEN Err("MissingScheme")
        ELSE IF split = {} THEN Err("MissingPath")
        ELSE IF parts[1] = << >> THEN Err("MissingTrustDomain")
        ELSE IF parts[2] = << >> THEN Err("MissingPath")
        ELSE IF IsErr(domain) THEN domain
        ELSE [domain |-> domain, path |-> parts[2]]

-----------------------------------------------------------------------------
(* Properties.                                                             *)

\* The text is a text.
TypeOK == scheme \in BOOLEAN /\ text \in Seq(Tokens)

\* Parsing is the exact inverse of printing and accepts nothing else: a text that
\* parses is what its SPIFFE ID prints, so no two texts name one identity.
ParsedIsPrinted ==
    \A s \in {text, text \o <<"/", "local">>} :
        LET r == Parse(scheme, s) IN ~IsErr(r) => scheme /\ Uri(r) = s

\* Every identity whose parts are legal survives being printed by enumerate and
\* named with --spiffe-id; in particular no issuer prints as another namespace.
PrintedIsParsed ==
    \A k \in DOMAIN Prefix :
        (text # << >> /\ \A i \in DOMAIN text : text[i] \notin {"/", "illegal"}) =>
            LET id == [domain |-> [kind |-> k, value |-> text], path |-> <<"local">>]
            IN  Parse(TRUE, Uri(id)) = id
=============================================================================
