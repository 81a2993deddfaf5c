-------------------------- MODULE MailClientProofs --------------------------
(***************************************************************************)
(* What a sendMail reports is true, and only a Connect that times out      *)
(* leaks a connection, for any number of sessions and of faults.           *)
(***************************************************************************)
EXTENDS MailClient, FiniteSetTheorems, TLAPS

\* Connections that nobody waits for any more, up or still to come up.
Abandoned ==
    {s \in Sessions : \/ s # client /\ sess[s] = "open"
                      \/ s # dial /\ sess[s] \in {"dialing", "silent"}}

\* The mail is with the server from Data on, and only then; the connection
\* that is awaited is not up.
Rest ==
    /\ TypeOK
    /\ ResultTruthful
    /\ pc \in PC \ {"idle", "quit", "error"} => got = 0
    /\ pc = "quit" => got = 1
    /\ pc = "dialing" => sess[dial] \in {"dialing", "silent"}
    /\ pc # "dialing" => dial = Nil
    /\ client # Nil => sess[client] \in {"open", "dead"}

\* Every abandoned connection is charged to a timeout when its dial is given
\* up, before it can be a leak.
IndInv == Rest /\ Cardinality(Abandoned) <= timeouts

\* Abandoned connections are sessions, of which there are finitely many.
LEMMA AbandonedFinite ==
    IsFiniteSet(Abandoned) /\ Cardinality(Abandoned) \in Nat
<1>1. Abandoned \subseteq Sessions
  BY Zenon DEF Abandoned
<1> QED BY <1>1, MailClientAssumption, FS_Subset, FS_CardinalityType, Zenon

\* A step that abandons no further connection keeps the account.
LEMMA NothingAbandoned ==
    ASSUME IndInv, TypeOK', timeouts' = timeouts, Abandoned' \subseteq Abandoned
    PROVE  (Cardinality(Abandoned) <= timeouts)'
<1>1. /\ Cardinality(Abandoned') <= Cardinality(Abandoned)
      /\ Cardinality(Abandoned') \in Nat
  BY AbandonedFinite, FS_Subset, FS_CardinalityType, Zenon
<1> QED BY <1>1, AbandonedFinite DEF IndInv, Rest, TypeOK

\* Nothing was sent when the process starts.
LEMMA IndInvInit == Init => IndInv
<1> SUFFICES ASSUME Init PROVE IndInv
    OBVIOUS
<1>1. Abandoned = {}
  BY DEF Init, Abandoned
<1>2. Cardinality(Abandoned) <= timeouts
  BY <1>1, FS_EmptySet DEF Init
<1> QED BY <1>2, MailClientAssumption, SessionsAssumption
    DEF Init, IndInv, Rest, TypeOK, ResultTruthful, PC, Sending, SessionState

\* Every step of Connect, of Send, of the server and of the network keeps the
\* invariant, and only a timeout abandons a connection.
LEMMA RestStep ==
    ASSUME Rest, [Next]_vars
    PROVE  /\ Rest'
           /\ \/ timeouts' = timeouts /\ Abandoned' \subseteq Abandoned
              \/ timeouts' = timeouts + 1 /\ Abandoned' = Abandoned \cup {dial}
<1> USE MailClientAssumption, SessionsAssumption
<1> USE DEF Rest, TypeOK, ResultTruthful, PC, Sending, SessionState, Fault, Return, Abandoned
<1>1. CASE Call
  BY <1>1 DEF Call
<1>2. CASE Reuse
  BY <1>2 DEF Reuse
<1>3. CASE Dial
  <2>1. PICK s \in Sessions :
          /\ sess[s] = "none"
          /\ dial' = s
          /\ \/ sess' = [sess EXCEPT ![s] = "dialing"] /\ UNCHANGED faults
             \/ sess' = [sess EXCEPT ![s] = "silent"] /\ Fault
    BY <1>3, Zenon DEF Dial
  <2> QED BY <1>3, <2>1 DEF Dial
<1>4. CASE Connected
  BY <1>4 DEF Connected
<1>5. CASE Timeout
  BY <1>5 DEF Timeout
<1>6. CASE Break
  BY <1>6 DEF Break
<1>7. CASE SendStep
  <2>1. CASE \E c \in {"hello", "tls", "auth", "mail", "rcpt"} : Command(c)
    BY <1>7, <2>1 DEF Command, After
  <2>2. CASE Data
    BY <1>7, <2>2 DEF Data
  <2>3. CASE Quit
    BY <1>7, <2>3 DEF Quit
  <2>4. CASE Error
    BY <1>7, <2>4 DEF Error
  <2> QED BY <1>7, <2>1, <2>2, <2>3, <2>4, Zenon DEF SendStep
<1>8. CASE \E s \in Sessions : LateDial(s)
  BY <1>8 DEF LateDial
<1>9. CASE UNCHANGED vars
  BY <1>9 DEF vars
<1> QED BY <1>1, <1>2, <1>3, <1>4, <1>5, <1>6, <1>7, <1>8, <1>9, Zenon DEF Next

\* The account holds after every step: a timeout pays for its own dial.
LEMMA IndInvStep == IndInv /\ [Next]_vars => IndInv'
<1> SUFFICES ASSUME IndInv, [Next]_vars PROVE IndInv'
    BY Zenon
<1>1. Rest /\ TypeOK /\ (Rest' => TypeOK')
  BY Zenon DEF IndInv, Rest
<1>2. Rest' /\ TypeOK'
  BY <1>1, RestStep, Zenon
<1>3. (Cardinality(Abandoned) <= timeouts)'
  <2>1. CASE timeouts' = timeouts /\ Abandoned' \subseteq Abandoned
    BY <1>2, <2>1, NothingAbandoned, Zenon
  <2>2. CASE timeouts' = timeouts + 1 /\ Abandoned' = Abandoned \cup {dial}
    <3>1. Cardinality(Abandoned') \in {Cardinality(Abandoned), Cardinality(Abandoned) + 1}
      BY <2>2, AbandonedFinite, FS_AddElement, Zenon
    <3> QED BY <2>2, <3>1, AbandonedFinite DEF IndInv, Rest, TypeOK
  <2> QED BY <1>1, <2>1, <2>2, RestStep, Zenon
<1> QED BY <1>2, <1>3, Zenon DEF IndInv, Rest

\* The inductive invariant holds of every run of the client.
LEMMA IndInvCorrect == Spec => []IndInv
BY IndInvInit, IndInvStep, PTL DEF Spec

\* Send never runs without a client: the nil it would dereference is excluded
\* by Connect.
THEOREM ClientTyped == Spec => []TypeOK
BY IndInvCorrect, PTL DEF IndInv, Rest

\* The status that sendMail returns is true of the server: "delivered" only
\* with the mail accepted, "unavailable" only without.
THEOREM Truthful == Spec => []ResultTruthful
BY IndInvCorrect, PTL DEF IndInv, Rest

\* A connection is leaked only by a Connect that timed out, one at most by
\* each: every leaked connection is an abandoned one.
THEOREM OnlyTimeoutsLeak == Spec => []LeaksAreTimeouts
<1>1. IndInv => LeaksAreTimeouts
  <2> SUFFICES ASSUME IndInv PROVE LeaksAreTimeouts
      BY Zenon
  <2>1. Leaked \subseteq Abandoned
    BY Zenon DEF Leaked, Abandoned
  <2>2. Cardinality(Leaked) <= Cardinality(Abandoned) /\ Cardinality(Leaked) \in Nat
    BY <2>1, AbandonedFinite, FS_Subset, FS_CardinalityType, Zenon
  <2> QED BY <2>2, AbandonedFinite DEF LeaksAreTimeouts, IndInv, Rest, TypeOK
<1> QED BY <1>1, IndInvCorrect, PTL
=============================================================================
