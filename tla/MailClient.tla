----------------------------- MODULE MailClient -----------------------------
(***************************************************************************)
(* mail.Client, as one delivery worker uses it: Connect, then Send, over   *)
(* and over (mail/client.go; DeliveryWorker.sendMail).                     *)
(*                                                                         *)
(* A session is one SMTP connection.  What net/smtp does is modelled by    *)
(* what mail.Client sees of it: a command succeeds, is rejected, or finds  *)
(* the connection broken; Hello fails on a session that has seen it; Quit  *)
(* closes the session if it succeeds.  TestMode is off.                    *)
(***************************************************************************)
EXTENDS Integers, FiniteSets

CONSTANTS
    Sessions,  \* connections that can be open or being opened at a time
    MaxFaults  \* bound: faults of the server and of the network

\* Each fault uses up one session at most, so that Dial always finds one.
ASSUME MailClientAssumption ==
    MaxFaults \in Nat /\ IsFiniteSet(Sessions) /\ Cardinality(Sessions) > MaxFaults

VARIABLES
    client,  \* c.client: a session or Nil
    sess,    \* Sessions -> state of the connection
    hello,   \* sessions that have seen Hello
    dial,    \* the session the select in Connect waits for, or Nil
    pc,      \* where sendMail is
    result,  \* the status of the last sendMail
    got,     \* mails the server accepted during this sendMail
    faults,
    timeouts \* history: calls of Connect that timed out

vars == <<client, sess, hello, dial, pc, result, got, faults, timeouts>>

Nil == "nil"
ASSUME SessionsAssumption == Nil \notin Sessions

\* Send runs, and uses c.client.
Sending == {"hello", "tls", "auth", "mail", "rcpt", "data", "quit", "error"}

\* "dialing" and "silent": smtp.Dial runs; a silent server does not
\* greet before ConnectTimeout.
\* "dead": closed, or dropped by the server or the network.
SessionState == {"none", "dialing", "silent", "open", "dead"}

\* The commands of Send, in order; "tls" and "auth" are skipped by a client
\* with TLS disabled and by a server that does not offer them.
After == [hello |-> "tls", tls |-> "auth", auth |-> "mail", mail |-> "rcpt", rcpt |-> "data"]

PC == {"idle", "connect", "dialing"} \cup Sending

Fault == faults < MaxFaults /\ faults' = faults + 1

Return(s) == pc' = "idle" /\ result' = s

-----------------------------------------------------------------------------
\* sendMail starts, with Connect.
Call ==
    /\ pc = "idle"
    /\ pc' = "connect"
    /\ got' = 0
    /\ UNCHANGED <<client, sess, hello, dial, result, faults, timeouts>>

\* Connect with a client in place: "Already connected."  Send then calls
\* Connect again, to the same effect, before its Hello.
Reuse ==
    /\ pc = "connect"
    /\ client # Nil
    /\ pc' = "hello"
    /\ UNCHANGED <<client, sess, hello, dial, result, got, faults, timeouts>>

\* connect(): a goroutine dials.
Dial ==
    /\ pc = "connect"
    /\ client = Nil
    /\ \E s \in Sessions :
         /\ sess[s] = "none"
         /\ dial' = s
         /\ \/ sess' = [sess EXCEPT ![s] = "dialing"] /\ UNCHANGED faults
            \/ sess' = [sess EXCEPT ![s] = "silent"] /\ Fault
    /\ pc' = "dialing"
    /\ UNCHANGED <<client, hello, result, got, timeouts>>

\* The goroutine's connection arrives in time, or its error.
Connected ==
    /\ pc = "dialing"
    /\ sess[dial] = "dialing"
    /\ \/ /\ sess' = [sess EXCEPT ![dial] = "open"]
          /\ client' = dial
          /\ pc' = "hello"
          /\ UNCHANGED <<result, faults>>
       \/ /\ Fault
          /\ sess' = [sess EXCEPT ![dial] = "none"]
          /\ Return("unavailable")
          /\ UNCHANGED client
    /\ dial' = Nil
    /\ UNCHANGED <<hello, got, timeouts>>

\* Mutant of Timeout: the select has no second case.
NoTimeout == FALSE /\ UNCHANGED vars

\* ConnectTimeout: the goroutine keeps dialing.
Timeout ==
    /\ pc = "dialing"
    /\ \/ sess[dial] = "silent" /\ UNCHANGED faults
       \/ sess[dial] = "dialing" /\ Fault
    /\ dial' = Nil
    /\ timeouts' = timeouts + 1
    /\ Return("unavailable")
    /\ UNCHANGED <<client, sess, hello, got>>

\* A dial that was given up ends.  Its goroutine waits forever to send the
\* connection, or the error, on a channel nobody reads: a connection that was
\* made this late is up, and nothing will ever use or close it.
LateDial(s) ==
    /\ sess[s] \in {"dialing", "silent"}
    /\ s # dial
    /\ sess' \in {[sess EXCEPT ![s] = "open"], [sess EXCEPT ![s] = "none"]}
    /\ UNCHANGED <<client, hello, dial, pc, result, got, faults, timeouts>>

\* The server or the network drops a connection.
Break ==
    /\ \E s \in Sessions : sess[s] = "open" /\ sess' = [sess EXCEPT ![s] = "dead"]
    /\ Fault
    /\ UNCHANGED <<client, hello, dial, pc, result, got, timeouts>>

-----------------------------------------------------------------------------
(* Send.                                                                   *)

\* The command gets its reply: the session is up, and is new to Hello.
Usable(c) == sess[client] = "open" /\ (c = "hello" => client \notin hello)

\* Hello, StartTLS, Auth, Mail and Rcpt.
Command(c) ==
    /\ pc = c
    /\ \/ Usable(c) /\ pc' = After[c] /\ UNCHANGED faults
       \/ Usable(c) /\ pc' = "error" /\ Fault
       \/ ~Usable(c) /\ pc' = "error" /\ UNCHANGED faults
    /\ hello' = IF c = "hello" THEN hello \cup {client} ELSE hello
    /\ UNCHANGED <<client, sess, dial, result, got, timeouts>>

\* Mutant of Data: a reply that is an error is taken for success.
DataUnchecked ==
    /\ pc = "data"
    /\ Usable("data")
    /\ \/ got' = got + 1 /\ UNCHANGED faults
       \/ got' = got /\ Fault
    /\ pc' = "quit"
    /\ UNCHANGED <<client, sess, hello, dial, result, timeouts>>

\* Data: the server accepts the mail, refuses it, or accepts it and its reply
\* is an error for the client all the same.
Data ==
    /\ pc = "data"
    /\ \/ /\ Usable("data")
          /\ got' = got + 1
          /\ pc' = "quit"
          /\ UNCHANGED faults
       \/ /\ Usable("data")
          /\ Fault
          /\ got' \in {got, got + 1}
          /\ pc' = "error"
       \/ /\ ~Usable("data")
          /\ pc' = "error"
          /\ UNCHANGED <<got, faults>>
    /\ UNCHANGED <<client, sess, hello, dial, result, timeouts>>

\* Mutant of Quit: the client is dropped whatever QUIT does.
QuitAlways ==
    /\ pc = "quit"
    /\ client' = Nil
    /\ \/ /\ Usable("quit")
          /\ sess' = [sess EXCEPT ![client] = "none"]
          /\ hello' = hello \ {client}
          /\ UNCHANGED faults
       \/ /\ Usable("quit")
          /\ Fault
          /\ UNCHANGED <<sess, hello>>
    /\ Return("delivered")
    /\ UNCHANGED <<dial, got, timeouts>>

\* Quit: the client is dropped only if QUIT succeeds.
Quit ==
    /\ pc = "quit"
    /\ \/ /\ Usable("quit")
          /\ sess' = [sess EXCEPT ![client] = "none"]
          /\ hello' = hello \ {client}
          /\ client' = Nil
          /\ Return("delivered")
          /\ UNCHANGED faults
       \/ /\ Usable("quit")
          /\ Fault
          /\ pc' = "error"
          /\ UNCHANGED <<client, sess, hello, result>>
       \/ /\ ~Usable("quit")
          /\ pc' = "error"
          /\ UNCHANGED <<client, sess, hello, result, faults>>
    /\ UNCHANGED <<dial, got, timeouts>>

\* Error: the session is asked to quit; c.client stays.  Whether QUIT succeeds
\* is left open: net/smtp also refuses it after a rejected Hello.
Error ==
    /\ pc = "error"
    /\ sess' \in {sess, [sess EXCEPT ![client] = "dead"]}
    /\ Return("failed")
    /\ UNCHANGED <<client, hello, dial, got, faults, timeouts>>

-----------------------------------------------------------------------------
Init ==
    /\ client = Nil
    /\ sess = [s \in Sessions |-> "none"]
    /\ hello = {}
    /\ dial = Nil
    /\ pc = "idle"
    /\ result = "none"
    /\ got = 0
    /\ faults = 0
    /\ timeouts = 0

SendStep ==
    \/ \E c \in {"hello", "tls", "auth", "mail", "rcpt"} : Command(c)
    \/ Data
    \/ Quit
    \/ Error

Next ==
    \/ Call \/ Reuse \/ Dial \/ Connected \/ Timeout \/ Break \/ SendStep
    \/ \E s \in Sessions : LateDial(s)

Spec == Init /\ [][Next]_vars

\* The worker keeps being given jobs and its goroutine is scheduled; a timer
\* fires; a server that greets does so in the end, and so does one that was
\* sent a command (there is no timeout on commands).
FairSpec ==
    /\ Spec
    /\ WF_vars(Call) /\ WF_vars(Reuse \/ Dial) /\ WF_vars(Connected) /\ WF_vars(Timeout)
    /\ WF_vars(SendStep)
    /\ \A s \in Sessions : WF_vars(LateDial(s))

-----------------------------------------------------------------------------
(* Properties.                                                             *)

\* The variables have their types, and Send never runs without a client (it
\* would dereference nil).
TypeOK ==
    /\ client \in Sessions \cup {Nil} /\ dial \in Sessions \cup {Nil}
    /\ sess \in [Sessions -> SessionState]
    /\ hello \in SUBSET Sessions
    /\ pc \in PC
    /\ result \in {"none", "delivered", "failed", "unavailable"}
    /\ got \in Nat
    /\ faults \in 0 .. MaxFaults
    /\ timeouts \in Nat
    /\ pc \in Sending => client # Nil
    /\ pc = "dialing" => client = Nil /\ dial # Nil

\* A sendMail hands at most one copy to the server; if it reports "delivered"
\* it did hand over one, and none if it reports "unavailable".
ResultTruthful ==
    /\ got <= 1
    /\ pc = "idle" =>
         /\ result = "delivered" => got = 1
         /\ result = "unavailable" => got = 0

\* Connections that are up without being c.client, so that nothing will ever
\* use or close them.
Leaked == {s \in Sessions : sess[s] = "open"} \ {client}

\* Connect leaks a connection when a dial succeeds after ConnectTimeout, and
\* there is no other leak: there are never more leaked connections than calls
\* of Connect that timed out, whatever Send, Quit and Error do after an error.
LeaksAreTimeouts == Cardinality(Leaked) <= timeouts

\* Every sendMail returns, even when the server never greets.
Returns == (pc # "idle") ~> (pc = "idle")

\* API.md:542: 'In the case of "failed" or "unavailable", the system will
\* retry the delivery'.  With a server that works from some point on, a failed
\* sendMail is followed by one that delivers.
RetryDelivers == (result \in {"failed", "unavailable"}) ~> (result = "delivered")
=============================================================================
