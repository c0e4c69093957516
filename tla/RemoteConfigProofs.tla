------------------------- MODULE RemoteConfigProofs -------------------------
(***************************************************************************)
(* Theorems about RemoteConfig, for any number of nodes that share the     *)
(* file, any documents and any limit of redirects.                         *)
(***************************************************************************)
EXTENDS RemoteConfig, TLAPS

USE ValidAssumption, RedirectsAssumption, NoneAssumption

\* What a start has established by the time it gets to a stage.
Established(n) ==
    /\ at[n] \in {"parse", "write", "rename", "running"} =>
          /\ got[n] # Torn
          /\ source[n] = "url" => got[n] = fetched[n] /\ pin[n] \in {None, got[n]}
    /\ at[n] \in {"write", "rename"} => got[n] \in Valid
    /\ at[n] = "rename" => temp[n] = [doc |-> got[n], durable |-> TRUE]

Shared ==
    /\ contacted \subseteq {"https"}
    /\ file.durable /\ file.doc # Torn

IInv == TypeOK /\ Shared /\ \A n \in Nodes : Established(n)

---------------------------------------------------------------------------

LEMMA InductiveInit == Init => IInv
<1> SUFFICES ASSUME Init PROVE IInv
    OBVIOUS
<1>1. file \in Files
      BY DEF Init, Files
<1>2. 0 \in 0..MaxRedirects /\ 0 \in 0..MaxBoots
      OBVIOUS
<1>3. TypeOK
      BY <1>1, <1>2 DEF Init, TypeOK, Schemes
<1>4. Shared /\ \A n \in Nodes : Established(n)
      BY DEF Init, Shared, Established
<1> QED BY <1>3, <1>4 DEF IInv

\* The steps of one node.
LEMMA BootKeeps ==
    ASSUME IInv, NEW n \in Nodes, NEW s \in {"url", "local"}, NEW u \in Schemes,
           NEW p \in Docs \union {None}, Boot(n, s, u, p)
    PROVE  IInv'
<1> USE DEF IInv, Boot
<1>1. file.doc \in Docs \union {None, Torn}
      BY DEF TypeOK, Files
<1>2. TypeOK'
      BY <1>1 DEF TypeOK
<1>3. Shared'
      BY DEF Shared
<1>4. \A m \in Nodes : Established(m)'
      BY DEF Established, TypeOK, Shared
<1> QED BY <1>2, <1>3, <1>4

LEMMA FetchKeeps ==
    ASSUME IInv, NEW n \in Nodes,
           \/ RefuseUrl(n) \/ FetchFails(n)
           \/ \E u \in Schemes : Redirect(n, u)
           \/ \E d \in Docs : Receive(n, d)
    PROVE  IInv'
<1> USE DEF IInv, Abort, Contact, Acceptable
<1>1. CASE RefuseUrl(n)
      BY <1>1 DEF RefuseUrl, TypeOK, Established, Shared
<1>2. CASE FetchFails(n)
      BY <1>2 DEF FetchFails, TypeOK, Schemes, Established, Shared
<1>3. ASSUME NEW u \in Schemes, Redirect(n, u) PROVE IInv'
  <2>1. TypeOK'
    <3>1. CASE hops[n] = MaxRedirects
          BY <1>3, <3>1 DEF Redirect, TypeOK
    <3>2. CASE hops[n] # MaxRedirects
      <4>1. hops[n] + 1 \in 0..MaxRedirects
            BY <3>2 DEF TypeOK
      <4> QED BY <1>3, <3>2, <4>1 DEF Redirect, TypeOK
    <3> QED BY <3>1, <3>2
  <2>2. Shared' /\ \A m \in Nodes : Established(m)'
        BY <1>3 DEF Redirect, TypeOK, Shared, Established
  <2> QED BY <2>1, <2>2
<1>4. ASSUME NEW d \in Docs, Receive(n, d) PROVE IInv'
  <2>1. TypeOK'
        BY <1>4 DEF Receive, TypeOK
  <2>2. Shared' /\ \A m \in Nodes : Established(m)'
        BY <1>4 DEF Receive, TypeOK, Shared, Established
  <2> QED BY <2>1, <2>2
<1> QED BY <1>1, <1>2, <1>3, <1>4

LEMMA PersistKeeps ==
    ASSUME IInv, NEW n \in Nodes,
           Parse(n) \/ Write(n) \/ Rename(n) \/ PersistFails(n)
    PROVE  IInv'
<1> USE DEF IInv
<1>1. CASE Parse(n)
      BY <1>1 DEF Parse, TypeOK, Established, Shared
<1>2. CASE Write(n)
  <2>1. [doc |-> got[n], durable |-> TRUE] \in Files
        BY <1>2 DEF TypeOK, Files
  <2>2. TypeOK'
        BY <1>2, <2>1 DEF Write, TypeOK
  <2>3. Shared' /\ \A m \in Nodes : Established(m)'
        BY <1>2 DEF Write, TypeOK, Shared, Established
  <2> QED BY <2>2, <2>3
<1>3. CASE Rename(n)
  <2>1. temp[n] = [doc |-> got[n], durable |-> TRUE] /\ got[n] # Torn
        /\ got[n] \in Docs
        BY <1>3 DEF Rename, Established
  <2>2. TypeOK'
        BY <1>3, <2>1 DEF Rename, TypeOK, Files
  <2>3. Shared' /\ \A m \in Nodes : Established(m)'
        BY <1>3, <2>1 DEF Rename, TypeOK, Shared, Established
  <2> QED BY <2>2, <2>3
<1>4. CASE PersistFails(n)
      BY <1>4 DEF PersistFails, Abort, TypeOK, Established, Shared
<1> QED BY <1>1, <1>2, <1>3, <1>4

LEMMA EndsKeeps == ASSUME IInv, NEW n \in Nodes, Ends(n) PROVE IInv'
<1> USE DEF IInv
<1>1. file' = file
      BY DEF Ends, Lose, Shared
<1>2. temp' = temp
  <2>1. CASE at[n] = "rename"
        BY <2>1 DEF Ends, Lose, Established, TypeOK
  <2>2. CASE at[n] # "rename"
        BY <2>2 DEF Ends, TypeOK
  <2> QED BY <2>1, <2>2
<1> QED BY <1>1, <1>2 DEF Ends, Abort, TypeOK, Established, Shared

LEMMA InductiveNext == IInv /\ [Next]_vars => IInv'
<1> SUFFICES ASSUME IInv, [Next]_vars PROVE IInv'
    OBVIOUS
<1>1. CASE UNCHANGED vars
      BY <1>1 DEF vars, IInv, TypeOK, Established, Shared
<1> QED BY <1>1, BootKeeps, FetchKeeps, PersistKeeps, EndsKeeps
        DEF Next, Load, Terminated

LEMMA InductiveHolds == Spec => []IInv
BY InductiveInit, InductiveNext, PTL DEF Spec

---------------------------------------------------------------------------

\* The variables keep their types; a fetch follows at most MaxRedirects redirects
\* (config.py:450-472).
THEOREM ConfigTypeCorrect == Spec => []TypeOK
BY InductiveHolds, PTL DEF IInv

\* A node runs the document that this very start fetched, over HTTPS alone
\* (config.py:377-395, 452, 472, 510-513).
THEOREM RunsWhatItFetchedHolds == Spec => []RunsWhatItFetched
<1>1. IInv => RunsWhatItFetched
      BY DEF IInv, Shared, Established, RunsWhatItFetched
<1> QED BY <1>1, InductiveHolds, PTL

\* The file is whole at every moment, after a loss of power too (config.py:543-547).
THEOREM FileIsWholeHolds == Spec => []FileIsWhole
<1>1. IInv => FileIsWhole
      BY DEF IInv, Shared, FileIsWhole
<1> QED BY <1>1, InductiveHolds, PTL

\* Only a document that parses ever replaces the file (config.py:394-395).
THEOREM ParsedHolds == Spec => ParsedBeforePersisted
<1>1. IInv /\ [Next]_vars => [file'.doc # file.doc => file'.doc \in Valid]_vars
  <2> SUFFICES ASSUME IInv, [Next]_vars, file'.doc # file.doc PROVE file'.doc \in Valid
      OBVIOUS
  <2>1. ASSUME NEW n \in Nodes, Rename(n) PROVE file'.doc \in Valid
    <3>1. Established(n)
          BY DEF IInv
    <3>2. at[n] = "rename" /\ file' = temp[n]
          BY <2>1 DEF Rename
    <3>3. file' = [doc |-> got[n], durable |-> TRUE] /\ got[n] \in Valid
          BY <3>1, <3>2 DEF Established
    <3> QED BY <3>3
  <2>2. ASSUME NEW n \in Nodes, Ends(n) PROVE FALSE
        BY <2>2 DEF Ends, Lose, IInv, Shared
  <2>3. ASSUME NEW n \in Nodes, Load(n), ~Rename(n) PROVE UNCHANGED file
        BY <2>3 DEF Load, Boot, RefuseUrl, FetchFails, Redirect, Receive, Parse, Write,
                    PersistFails
  <2>4. ASSUME UNCHANGED vars PROVE FALSE
        BY <2>4 DEF vars
  <2>5. PICK n \in Nodes : Load(n)
        BY <2>2, <2>4 DEF Next, Terminated
  <2> QED BY <2>1, <2>3, <2>5
<1> QED BY <1>1, InductiveHolds, PTL DEF Spec, ParsedBeforePersisted
=============================================================================
