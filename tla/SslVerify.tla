----------------------------- MODULE SslVerify -----------------------------
(***************************************************************************)
(* Comparing a host name with a certificate (src/src/ssl_verify.c).  A C   *)
(* string is the sequence of its characters.  A certificate is a record:   *)
(* its common names, one or none, and its alternative names in order.  A   *)
(* name of either kind has a text, and whole says that the text does not   *)
(* end early, at a null byte inside the name.                              *)
(***************************************************************************)
EXTENDS Naturals, Sequences, SequencesExt

Name      == Seq(STRING)
Text      == [text : Name, whole : BOOLEAN]
AltName   == [type : {"dns", "ip4", "other"}, text : Name, whole : BOOLEAN]
Cert      == [cn : SUBSET Text, san : Seq(AltName)]

\* t occurs in s at i; strstr and strchr point at the first occurrence.
OccursAt(s, t, i) ==
    i + Len(t) <= Len(s) + 1 /\ \A k \in 1..Len(t) : s[i + k - 1] = t[k]
FirstAt(s, t, i) ==
    OccursAt(s, t, i) /\ \A j \in 1..Len(s) : OccursAt(s, t, j) => i <= j

matches_wildcard_name(subjectname, certname) ==
    \/ subjectname = certname
    \/ /\ Len(certname) > 3 /\ certname[1] = "*" /\ certname[2] = "."
       /\ \E k \in 3..Len(certname) : certname[k] = "."
       /\ \E tmp \in 1..Len(subjectname) :
             /\ FirstAt(subjectname, Tail(certname), tmp)
             /\ SubSeq(subjectname, tmp, Len(subjectname)) # Tail(Tail(certname))
             /\ FirstAt(subjectname, <<".">>, tmp)

\* One full stop at the end of an alternative name is dropped.
Dropped(t) == IF t # <<>> /\ t[Len(t)] = "." THEN SubSeq(t, 1, Len(t) - 1) ELSE t

matches_san_list(peer, subject_name) ==
    \E i \in DOMAIN peer.san : LET san == peer.san[i] IN
        \/ san.type = "dns" /\ san.whole /\ matches_wildcard_name(subject_name, Dropped(san.text))
        \/ san.type = "ip4" /\ subject_name = san.text

\* The common name is turned down when it equals the host name and the
\* wildcard comparison of the two fails.
matches_common_name(peer, subject_name) ==
    \E cn \in peer.cn :
        /\ cn.whole
        /\ ~(subject_name = cn.text /\ ~matches_wildcard_name(subject_name, cn.text))

\* handleHandshake: neither comparison succeeds.
Mismatch(peer, subject_name) ==
    ~matches_common_name(peer, subject_name) /\ ~matches_san_list(peer, subject_name)
=============================================================================
