------------------------------ MODULE Dispatch ------------------------------
(***************************************************************************)
(* The token of the service and the lookups made with it: TokenLoader.Load *)
(* with its mutex and its cached token, the strategies that turn a notify  *)
(* request into a list of recipients with the help of UAA and the Cloud    *)
(* Controller, the lookup of a user by a delivery worker, and the answer a *)
(* failed lookup leads to (postal/token_loader.go, postal/strategies,      *)
(* postal/utilities, cf, web/handlers/error_writer.go).                    *)
(*                                                                         *)
(* One process.  A token is the time of its expiry, 0 is the empty string. *)
(* The requests of one route share a UAA client, whose AccessToken is set  *)
(* with the mutex held and read without it.                                *)
(***************************************************************************)
EXTENDS Integers, Sequences

CONSTANTS
    Requests,  \* notify requests and delivery attempts, each handled once
    RoutesOf,  \* RoutesOf[p]: what p may be
    Lifetime,  \* of a token
    Buffer,    \* toleratedRequestTime
    MaxTime,   \* bound: the clock
    MaxFaults  \* bound: calls that UAA or the Cloud Controller fails

\* "user" stands for POST /users and POST /emails, which look nothing up, and
\* "worker" for DeliveryWorker.Deliver.
Routes == {"user", "everyone", "scope", "organization", "space", "worker"}

ASSUME DispatchAssumption ==
    /\ "none" \notin Requests
    /\ RoutesOf \in [Requests -> SUBSET Routes]
    /\ Lifetime \in Nat \ {0} /\ Buffer \in Nat
    /\ MaxTime \in Nat \ {0} /\ MaxFaults \in Nat

VARIABLES
    now,      \* the clock
    token,    \* the global `token`
    broken,   \* is it a string in which ExpiresBefore finds no expiry?
    mutex,    \* who holds `mutex`
    client,   \* Routes -> AccessToken of the UAA client of the route
    proc,     \* Requests -> the progress of its handler
    faults,   \* number of faults so far
    issued,   \* history: number of tokens UAA has issued
    garbled   \* history: has UAA answered with something that is no token?

vars == <<now, token, broken, mutex, client, proc, faults, issued, garbled>>

None == "none"

\* No tokens: what a torn read yields, and that of a request without lookups.
Torn == -1
Unused == -2

\* The lookups of the strategies and of a worker, in their order.
UserStrategy == <<>>
EveryoneStrategy == <<"uaa">>
UAAScopeStrategy == <<"uaa">>
OrganizationStrategy == <<"org", "users">>
SpaceStrategy == <<"users", "space", "org">>
UserLoader == <<"uaa">>

Lookups(r) ==
    CASE r = "everyone" -> EveryoneStrategy
      [] r = "scope" -> UAAScopeStrategy
      [] r = "organization" -> OrganizationStrategy
      [] r = "space" -> SpaceStrategy
      [] r = "worker" -> UserLoader
      [] OTHER -> UserStrategy

\* These take the token from the client, the others from what Load returned.
ByClient == {"everyone", "scope"}

\* The errors: of UAA (down or generic), of the Cloud Controller (always down,
\* since its client keeps no code), and the ones nobody translates.
UAAErrorFor == "UAA error"
CCErrorFor == "CC down"
Untranslated == "other"

\* A panic on an unknown error is answered with 500.
ErrorWriter(err) == IF err \in {UAAErrorFor, CCErrorFor} THEN "502" ELSE "500"

\* What failure l of a request leads to; a worker retries.
Answer(r, l) ==
    CASE r = "worker" -> "retry"
      [] r # "worker" /\ l = "token" -> ErrorWriter(UAAErrorFor)
      [] r # "worker" /\ l \in {"space", "org"} -> ErrorWriter(CCErrorFor)
      [] OTHER -> ErrorWriter(Untranslated)

\* `at`: when Load looked at the cached token, `got`: what it returned, `used`:
\* the token of the last lookup.
Handling(r, pc) ==
    [pc |-> pc, route |-> r, todo |-> Lookups(r), got |-> 0, at |-> 0, used |-> Unused]

\* In progress.
Open == {"lock", "fetch", "set", "lookup", "mail"}

\* newTokenRequired, with ExpiresBefore as it is: the tolerance is added to the
\* expiry.
NewTokenRequired == token = 0 \/ token + Buffer < now

-----------------------------------------------------------------------------
\* Dispatch, up to the mutex.  Only the scope strategy refuses before that.
Dispatch(p) ==
    /\ proc[p].pc = "idle"
    /\ \E r \in RoutesOf[p] :
         \/ proc' = [proc EXCEPT ![p] = Handling(r, IF r = "user" THEN "mail" ELSE "lock")]
         \/ /\ r = "scope"
            /\ proc' = [proc EXCEPT ![p] = Handling(r, "406")]
    /\ UNCHANGED <<now, token, broken, mutex, client, faults, issued, garbled>>

\* Mutant of Lock: without the mutex.
LockUnguarded(p) ==
    /\ proc[p].pc = "lock" /\ ~broken
    /\ mutex' = p
    /\ proc' = [proc EXCEPT ![p].pc = IF NewTokenRequired THEN "fetch" ELSE "set", ![p].at = now]
    /\ UNCHANGED <<now, token, broken, client, faults, issued, garbled>>

\* mutex.Lock, and the look at the cached token.
Lock(p) ==
    /\ proc[p].pc = "lock" /\ mutex = None /\ ~broken
    /\ mutex' = p
    /\ proc' = [proc EXCEPT ![p].pc = IF NewTokenRequired THEN "fetch" ELSE "set", ![p].at = now]
    /\ UNCHANGED <<now, token, broken, client, faults, issued, garbled>>

\* ExpiresBefore panics on a cached token that has no second part or no expiry.
\* The mutex is unlocked by its defer and the router answers a request with
\* 500; in a worker nothing recovers, and the process ends with all it handles.
LockPanics(p) ==
    /\ proc[p].pc = "lock" /\ mutex = None /\ broken
    /\ IF proc[p].route # "worker"
       THEN /\ proc' = [proc EXCEPT ![p].pc = ErrorWriter(Untranslated)]
            /\ UNCHANGED <<broken, client>>
       ELSE /\ proc' = [q \in Requests |->
                          IF proc[q].pc \in Open THEN Handling(proc[q].route, "aborted") ELSE proc[q]]
            /\ broken' = FALSE
            /\ client' = [r \in Routes |-> 0]
    /\ UNCHANGED <<now, token, mutex, faults, issued, garbled>>

\* GetClientToken: UAA has issued a token since it was asked.
Fetch(p) ==
    /\ proc[p].pc = "fetch"
    /\ \E t \in proc[p].at .. now : token' = t + Lifetime
    /\ issued' = issued + 1
    /\ proc' = [proc EXCEPT ![p].pc = "set"]
    /\ UNCHANGED <<now, broken, mutex, client, faults, garbled>>

\* GetClientToken: an answer that is no token is no error, be it empty or one
\* that ExpiresBefore cannot take.
FetchGarbled(p) ==
    /\ proc[p].pc = "fetch" /\ faults < MaxFaults
    /\ faults' = faults + 1
    /\ token' = 0
    /\ broken' \in BOOLEAN
    /\ garbled' = TRUE
    /\ proc' = [proc EXCEPT ![p].pc = "set"]
    /\ UNCHANGED <<now, mutex, client, issued>>

\* Mutant of FetchFails: the mutex is not released.
FetchFailsLocked(p) ==
    /\ proc[p].pc = "fetch" /\ faults < MaxFaults
    /\ faults' = faults + 1
    /\ token' = 0
    /\ proc' = [proc EXCEPT ![p].pc = Answer(proc[p].route, "token")]
    /\ UNCHANGED <<now, broken, mutex, client, issued, garbled>>

\* GetClientToken fails: the cached token is overwritten all the same.
FetchFails(p) ==
    /\ proc[p].pc = "fetch" /\ faults < MaxFaults
    /\ faults' = faults + 1
    /\ token' = 0
    /\ mutex' = None
    /\ proc' = [proc EXCEPT ![p].pc = Answer(proc[p].route, "token")]
    /\ UNCHANGED <<now, broken, client, issued, garbled>>

\* Mutant of SetToken: Load only returns the token.
SetTokenForgotten(p) ==
    /\ proc[p].pc = "set"
    /\ proc' = [proc EXCEPT ![p].pc = "lookup", ![p].got = token]
    /\ mutex' = None
    /\ UNCHANGED <<now, token, broken, client, faults, issued, garbled>>

\* SetToken, unlock and return.
SetToken(p) ==
    /\ proc[p].pc = "set"
    /\ client' = [client EXCEPT ![proc[p].route] = token]
    /\ proc' = [proc EXCEPT ![p].pc = "lookup", ![p].got = token]
    /\ mutex' = None
    /\ UNCHANGED <<now, token, broken, faults, issued, garbled>>

\* What a request may read in its client: while another request sets another
\* token the read is a data race, and may yield part of each.
Readable(p) ==
    LET r == proc[p].route IN
    IF r \notin ByClient THEN {proc[p].got}
    ELSE {client[r]} \cup
         IF \E q \in Requests : proc[q].pc = "set" /\ proc[q].route = r /\ token # client[r]
         THEN {token, Torn} ELSE {}

\* One lookup.  UAA and the Cloud Controller refuse a token that has expired,
\* and either may fail.
Lookup(p) ==
    /\ proc[p].pc = "lookup"
    /\ \E t \in Readable(p) :
         /\ t >= now
         /\ LET rest == Tail(proc[p].todo) IN
            proc' = [proc EXCEPT ![p].used = t, ![p].todo = rest,
                                 ![p].pc = IF rest = <<>> THEN "mail" ELSE "lookup"]
    /\ UNCHANGED <<now, token, broken, mutex, client, faults, issued, garbled>>

LookupFails(p) ==
    /\ proc[p].pc = "lookup"
    /\ \E t \in Readable(p) :
         /\ IF t < now THEN UNCHANGED faults
            ELSE faults < MaxFaults /\ faults' = faults + 1
         /\ proc' = [proc EXCEPT ![p].used = t,
                                 ![p].pc = Answer(proc[p].route, Head(proc[p].todo))]
    /\ UNCHANGED <<now, token, broken, mutex, client, issued, garbled>>

\* Mailer.Deliver, or the rest of the attempt (see Delivery).
Mail(p) ==
    /\ proc[p].pc = "mail"
    /\ proc' = [proc EXCEPT ![p] = Handling(@.route, "200")]
    /\ UNCHANGED <<now, token, broken, mutex, client, faults, issued, garbled>>

Tick ==
    /\ now < MaxTime
    /\ now' = now + 1
    /\ UNCHANGED <<token, broken, mutex, client, proc, faults, issued, garbled>>

Init ==
    /\ now = 1
    /\ token = 0 /\ broken = FALSE
    /\ mutex = None
    /\ client = [r \in Routes |-> 0]
    /\ proc = [p \in Requests |-> Handling("user", "idle")]
    /\ faults = 0
    /\ issued = 0
    /\ garbled = FALSE

Handle(p) ==
    \/ Lock(p) \/ LockPanics(p) \/ Fetch(p) \/ FetchGarbled(p) \/ FetchFails(p) \/ SetToken(p)
    \/ Lookup(p) \/ LookupFails(p) \/ Mail(p)

Next ==
    \/ \E p \in Requests : Dispatch(p) \/ Handle(p)
    \/ Tick

Spec == Init /\ [][Next]_vars

\* A goroutine that can go on does, and UAA and the Cloud Controller answer in
\* the end: the code gives no call a deadline.
FairSpec == Spec /\ \A p \in Requests : WF_vars(Handle(p))

-----------------------------------------------------------------------------
(* Properties.                                                             *)

Answers == {"200", "406", "500", "502", "retry"}

\* Every variable has the type its declaration gives it.
TypeOK ==
    /\ now \in 1 .. MaxTime /\ token \in Nat /\ broken \in BOOLEAN
    /\ mutex \in Requests \cup {None}
    /\ client \in [Routes -> Nat]
    /\ \A p \in Requests :
         /\ proc[p].pc \in {"idle", "aborted"} \cup Open \cup Answers
         /\ proc[p].route \in Routes
         /\ proc[p].pc = "lookup" => proc[p].todo # <<>>
         /\ proc[p].got \in Nat /\ proc[p].used \in Nat \cup {Torn, Unused}
    /\ faults \in 0 .. MaxFaults /\ issued \in Nat /\ garbled \in BOOLEAN

\* What uaa/token.go:41 says of ExpiresBefore: "Determines if the token expires
\* by the current time plus the time buffer".  Load would then return a token
\* only if it outlives the look at it by the tolerance.
ExpiryAhead ==
    \A p \in Requests : proc[p].got # 0 => proc[p].got >= proc[p].at + Buffer

\* The requests of one route overwrite each other's token in their client, and
\* read it without the mutex.  A lookup never goes out with an older token than
\* the request's own, unless the read was torn or UAA has given no token.
UsedNotOlder ==
    \A p \in Requests : proc[p].used # Unused =>
        proc[p].used = Torn \/ proc[p].used >= proc[p].got \/ garbled

\* Requests that find the token expired at the same time fetch it once: UAA
\* issues a token per lifetime, and one more for each call that failed.
IssuedRarely ==
    issued <= 1 + faults + (now - 1) \div Lifetime

\* The mutex is held while UAA is asked, and every other request that needs a
\* token waits: all of them are answered in the end, whatever calls fail, or
\* end with their process if UAA once gave something that is no token.
Answered ==
    \A p \in Requests :
        proc[p].pc = "lock" ~> proc[p].pc \in Answers \/ (proc[p].pc = "aborted" /\ garbled)
=============================================================================
