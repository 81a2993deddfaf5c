--------------------------- MODULE DispatchProofs ---------------------------
(* What Dispatch guarantees for any number of requests, any lifetime and any
   tolerance: that requests which share a client never set it back, and how
   many tokens UAA has to issue. *)
EXTENDS Dispatch, TLAPS

PCs == {"idle", "aborted", "lock", "fetch", "set", "lookup", "mail"} \cup Answers
Before == {"idle", "lock", "fetch", "set"}
Names == {"org", "users", "space", "uaa"}

ProcType ==
    [pc: PCs, route: Routes, todo: Seq(Names), got: Nat, at: Nat, used: Int]

Types ==
    /\ now \in 1 .. MaxTime /\ token \in Nat /\ broken \in BOOLEAN
    /\ mutex \in Requests \cup {None}
    /\ client \in [Routes -> Nat]
    /\ proc \in [Requests -> ProcType]
    /\ faults \in 0 .. MaxFaults /\ issued \in Nat /\ garbled \in BOOLEAN

\* Lookups are left to be made until the last one is made, and nothing is
\* loaded or used before the mutex is released.
ProgressInv ==
    \A p \in Requests :
        /\ proc[p].pc \in {"lock", "fetch", "set", "lookup"} => proc[p].todo # <<>>
        /\ proc[p].pc \in Before => proc[p].got = 0 /\ proc[p].used = Unused
        /\ proc[p].used \in Nat \cup {Torn, Unused}

\* Only the holder of the mutex is inside Load.
MutexInv == \A p \in Requests : proc[p].pc \in {"fetch", "set"} => mutex = p

\* No token expires later than one issued now.
BoundInv ==
    /\ token <= now + Lifetime
    /\ \A r \in Routes : client[r] <= now + Lifetime
    /\ \A p \in Requests : proc[p].got <= now + Lifetime

\* While UAA is asked for a token, none expires later than one issued when it
\* was asked.
AskedInv ==
    \A p \in Requests : proc[p].pc = "fetch" =>
        /\ proc[p].at <= now
        /\ \A r \in Routes : client[r] <= proc[p].at + Lifetime
        /\ \A q \in Requests : proc[q].got <= proc[p].at + Lifetime

\* The cached token is the newest one.
NewestInv ==
    token # 0 => /\ \A r \in Routes : client[r] <= token
                 /\ \A p \in Requests : proc[p].got <= token

\* What the holder is about to return is a token unless UAA has once answered
\* with none.
SetInv == \A p \in Requests : proc[p].pc = "set" => token # 0 \/ garbled

\* A string without an expiry is no token, and nobody gets past it.
BrokenInv ==
    /\ broken => garbled /\ token = 0
    /\ \A p \in Requests : proc[p].pc = "fetch" => ~broken

\* A client is never set back behind what a request that uses it has loaded.
ClientInv ==
    garbled \/ \A p \in Requests : proc[p].pc = "lookup" => client[proc[p].route] >= proc[p].got

IndInv ==
    /\ Types /\ ProgressInv /\ MutexInv /\ BoundInv /\ AskedInv /\ NewestInv
    /\ SetInv /\ ClientInv /\ BrokenInv /\ UsedNotOlder

\* The bounds as the provers want them, and the types of what is compared.
LEMMA Bounds == /\ Lifetime \in Nat /\ Lifetime > 0 /\ Buffer \in Nat /\ MaxTime \in Nat
                /\ MaxTime > 0 /\ MaxFaults \in Nat /\ None \notin Requests
                /\ \A p \in Requests : RoutesOf[p] \subseteq Routes
  BY DispatchAssumption DEF None

Typing ==
    /\ now \in Nat /\ token \in Nat
    /\ \A r \in Routes : client[r] \in Nat
    /\ \A q \in Requests : /\ proc[q].at \in Nat /\ proc[q].got \in Nat
                           /\ proc[q].used \in Int /\ proc[q].route \in Routes
                           /\ proc[q].todo \in Seq(Names)

LEMMA Typed == Types => Typing
  BY Bounds DEF Types, ProcType, Typing

\* Every answer is one, a panic is answered too, and only routes that need a token look something up.
LEMMA AnswerType == \A r, l : Answer(r, l) \in Answers
  BY Zenon DEF Answer, Answers, ErrorWriter

LEMMA PanicAnswer == ErrorWriter(Untranslated) = "500"
  BY DEF ErrorWriter, Untranslated, UAAErrorFor, CCErrorFor

LEMMA LookupsType ==
    \A r \in Routes : Lookups(r) \in Seq(Names) /\ (r # "user" => Lookups(r) # <<>>)
<1>1. /\ <<"org", "users">> \in Seq(Names) /\ <<"users", "space", "org">> \in Seq(Names)
      /\ <<>> \in Seq(Names) /\ <<"uaa">> \in Seq(Names)
  BY DEF Names
<1>2. /\ <<"org", "users">> # <<>> /\ <<"users", "space", "org">> # <<>> /\ <<"uaa">> # <<>>
  BY Zenon
<1> QED
  BY <1>1, <1>2, Zenon DEF Lookups, UserStrategy, EveryoneStrategy, UAAScopeStrategy,
                    OrganizationStrategy, SpaceStrategy, UserLoader, Routes

\* What can be read in a client, torn reads included.
LEMMA ReadableBound ==
    ASSUME IndInv, NEW p \in Requests, proc[p].pc = "lookup", NEW t \in Readable(p)
    PROVE  t \in Nat \cup {Torn} /\ (t = Torn \/ t >= proc[p].got \/ garbled)
<1>1. CASE proc[p].route \notin ByClient
  BY <1>1 DEF Readable, IndInv, Types, ProcType
<1>2. CASE proc[p].route \in ByClient
  <2>1. t = Torn \/ t = client[proc[p].route]
        \/ (t = token /\ \E q \in Requests : proc[q].pc = "set")
    BY <1>2, Zenon DEF Readable
  <2>2. client[proc[p].route] \in Nat /\ (client[proc[p].route] >= proc[p].got \/ garbled)
    BY Zenon DEF IndInv, Types, ProcType, ClientInv
  <2>3. (\E q \in Requests : proc[q].pc = "set") => token \in Nat /\ (token >= proc[p].got \/ garbled)
    BY Zenon DEF IndInv, Types, ProcType, SetInv, NewestInv
  <2> QED
    BY <2>1, <2>2, <2>3, Zenon
<1> QED
  BY <1>1, <1>2, Zenon

\* The start: nothing is loaded, held or asked for.
LEMMA InitHolds == Init => IndInv
<1> SUFFICES ASSUME Init PROVE IndInv
  BY Zenon
<1> USE DEF Init, Handling, Unused, Torn, None
<1>1. Types
  <2>1. Handling("user", "idle") \in ProcType
    BY LookupsType DEF ProcType, PCs, Routes
  <2> QED
    <3>1. now \in 1 .. MaxTime /\ faults \in 0 .. MaxFaults /\ token \in Nat /\ issued \in Nat
      BY Bounds
    <3>2. client \in [Routes -> Nat] /\ proc \in [Requests -> ProcType]
      BY <2>1, Zenon
    <3> QED
      BY <3>1, <3>2, Zenon DEF Types
<1>2. ProgressInv /\ MutexInv
  BY Zenon DEF ProgressInv, MutexInv, Before
<1>3. BoundInv /\ AskedInv /\ NewestInv /\ SetInv /\ ClientInv
  BY Bounds DEF BoundInv, AskedInv, NewestInv, SetInv, ClientInv, Routes
<1>4. BrokenInv /\ UsedNotOlder
  BY Bounds, Zenon DEF BrokenInv, UsedNotOlder
<1> QED
  BY <1>1, <1>2, <1>3, <1>4, Zenon DEF IndInv

\* A request that arrives holds and has loaded nothing.
LEMMA DispatchStep == ASSUME IndInv, NEW p \in Requests, Dispatch(p) PROVE IndInv'
<1> USE DEF IndInv
<1>y. Typing
  BY Typed, Zenon
<1>t. PICK r \in Routes, pc \in {"mail", "lock", "406"} :
        /\ proc' = [proc EXCEPT ![p] = Handling(r, pc)]
        /\ pc = "lock" => r # "user"
  BY Bounds, Zenon DEF Dispatch
<1>b. UNCHANGED <<now, token, broken, mutex, client, faults, issued, garbled>>
  BY Zenon DEF Dispatch
<1>c. Handling(r, pc) \in ProcType
  BY LookupsType DEF ProcType, Handling, PCs, Answers, Unused
<1>d. r # "user" => Lookups(r) # <<>>
  BY LookupsType, Zenon
<1>a. \A q \in Requests :
        /\ proc'[q].pc = IF q = p THEN pc ELSE proc[q].pc
        /\ proc'[q].got = (IF q = p THEN 0 ELSE proc[q].got) /\ proc'[q].at = (IF q = p THEN 0 ELSE proc[q].at)
        /\ proc'[q].used = (IF q = p THEN Unused ELSE proc[q].used)
        /\ proc'[q].todo = (IF q = p THEN Lookups(r) ELSE proc[q].todo)
        /\ proc'[q].route = (IF q = p THEN r ELSE proc[q].route)
  BY <1>t, Zenon DEF Handling, Types, ProcType
<1>1. Types'
  BY <1>t, <1>b, <1>c, Zenon DEF Types
<1>2. ProgressInv'
  BY <1>y, Bounds, <1>a, <1>b, <1>d, <1>t DEF Typing, ProgressInv, Before, Torn, Unused
<1>3. MutexInv'
  BY <1>y, Bounds, <1>a, <1>b, <1>d, <1>t, Zenon DEF Typing, MutexInv
<1>4. BoundInv'
  BY <1>y, Bounds, <1>a, <1>b, <1>d, <1>t DEF Typing, BoundInv
<1>5. AskedInv'
  BY <1>y, Bounds, <1>a, <1>b, <1>d, <1>t DEF Typing, AskedInv, BoundInv, MutexInv
<1>6. NewestInv'
  BY <1>y, Bounds, <1>a, <1>b, <1>d, <1>t DEF Typing, BoundInv, AskedInv, NewestInv
<1>7. SetInv'
  BY <1>y, Bounds, <1>a, <1>b, <1>d, <1>t DEF Typing, SetInv, MutexInv
<1>8. ClientInv'
  BY <1>y, Bounds, <1>a, <1>b, <1>d, <1>t DEF Typing, ClientInv, NewestInv, SetInv
<1>9. BrokenInv'
  BY <1>y, Bounds, <1>a, <1>b, <1>d, <1>t DEF Typing, BrokenInv, MutexInv
<1>10. UsedNotOlder'
  BY <1>y, Bounds, <1>a, <1>b, <1>d, <1>t, Zenon DEF Typing, UsedNotOlder, ProgressInv, Before, Torn, Unused
<1> QED
  BY <1>1, <1>2, <1>3, <1>4, <1>5, <1>6, <1>7, <1>8, <1>9, <1>10, Zenon

\* The mutex was free, so that nobody else is inside Load.
LEMMA LockStep == ASSUME IndInv, NEW p \in Requests, Lock(p) PROVE IndInv'
<1> USE DEF IndInv
<1>y. Typing
  BY Typed, Zenon
<1>a. \A q \in Requests :
        /\ proc'[q].pc = IF q = p THEN IF NewTokenRequired THEN "fetch" ELSE "set" ELSE proc[q].pc
        /\ proc'[q].got = proc[q].got /\ proc'[q].at = (IF q = p THEN now ELSE proc[q].at)
        /\ proc'[q].used = proc[q].used
        /\ proc'[q].todo = proc[q].todo
        /\ proc'[q].route = proc[q].route
  BY Zenon DEF Lock, Types, ProcType
<1>b. /\ UNCHANGED <<now, token, broken, client, faults, issued, garbled>> /\ ~broken
      /\ proc[p].pc = "lock" /\ mutex = None /\ mutex' = p
  BY Zenon DEF Lock
<1>c. \A q \in Requests : proc[q].pc \notin {"fetch", "set"}
  BY <1>b, Bounds, Zenon DEF MutexInv
<1>d. now \in Nat
  BY <1>y, Zenon DEF Typing
<1>e. proc' \in [Requests -> ProcType]
  BY <1>d, ZenonT(30) DEF Lock, Types, ProcType, PCs
<1>1. Types'
  BY <1>b, <1>e, Zenon DEF Types
<1>2. ProgressInv'
  BY <1>y, Bounds, <1>a, <1>b, <1>c DEF Typing, ProgressInv, Before, Torn, Unused, NewTokenRequired
<1>3. MutexInv'
  BY <1>y, Bounds, <1>a, <1>b, <1>c, Zenon DEF Typing, MutexInv, NewTokenRequired
<1>4. BoundInv'
  BY <1>y, Bounds, <1>a, <1>b, <1>c, Zenon DEF Typing, BoundInv, NewTokenRequired
<1>5. AskedInv'
  BY <1>y, Bounds, <1>a, <1>b, <1>c DEF Typing, AskedInv, BoundInv, MutexInv, NewTokenRequired
<1>6. NewestInv'
  BY <1>y, Bounds, <1>a, <1>b, <1>c, Zenon DEF Typing, BoundInv, AskedInv, NewestInv, NewTokenRequired
<1>7. SetInv'
  BY <1>y, Bounds, <1>a, <1>b, <1>c DEF Typing, SetInv, MutexInv, NewTokenRequired
<1>8. ClientInv'
  BY <1>y, Bounds, <1>a, <1>b, <1>c, Zenon DEF Typing, ClientInv, NewestInv, SetInv, NewTokenRequired
<1>9. BrokenInv'
  BY <1>y, Bounds, <1>a, <1>b, <1>c, Zenon DEF Typing, BrokenInv, MutexInv, NewTokenRequired
<1>10. UsedNotOlder'
  BY <1>y, Bounds, <1>a, <1>b, <1>c DEF Typing, UsedNotOlder, ProgressInv, Before, Torn, Unused, NewTokenRequired
<1> QED
  BY <1>1, <1>2, <1>3, <1>4, <1>5, <1>6, <1>7, <1>8, <1>9, <1>10, Zenon

\* The mutex was free; who panics has loaded nothing, and a process that ends
\* leaves nothing behind.
LEMMA LockPanicsStep == ASSUME IndInv, NEW p \in Requests, LockPanics(p) PROVE IndInv'
<1> USE DEF IndInv
<1>y. Typing
  BY Typed, Zenon
<1>b. /\ UNCHANGED <<now, token, mutex, faults, issued, garbled>>
      /\ proc[p].pc = "lock" /\ mutex = None /\ broken
  BY Zenon DEF LockPanics
<1>c. \A q \in Requests : proc[q].pc \notin {"fetch", "set"}
  BY <1>b, Bounds, Zenon DEF MutexInv
<1>0. token = 0 /\ garbled
  BY <1>b, Zenon DEF BrokenInv
<1>1. CASE proc[p].route # "worker"
  <2>0. proc' = [proc EXCEPT ![p].pc = "500"]
    BY <1>1, PanicAnswer, Zenon DEF LockPanics
  <2>a. \A q \in Requests :
          /\ proc'[q].pc = IF q = p THEN "500" ELSE proc[q].pc
          /\ proc'[q].got = proc[q].got /\ proc'[q].at = proc[q].at
          /\ proc'[q].used = proc[q].used
          /\ proc'[q].todo = proc[q].todo
          /\ proc'[q].route = proc[q].route
    BY <2>0, Zenon DEF Types, ProcType
  <2>b. UNCHANGED <<broken, client>>
    BY <1>1, Zenon DEF LockPanics
  <2>c. proc' \in [Requests -> ProcType]
    BY <2>0, Zenon DEF Types, ProcType, PCs, Answers
  <2>1. Types'
    BY <1>b, <2>b, <2>c, Zenon DEF Types
  <2>2. ProgressInv' /\ MutexInv'
    BY <1>b, <1>c, <2>a, Zenon DEF ProgressInv, MutexInv, Before
  <2>3. BoundInv' /\ NewestInv'
    BY <1>b, <2>a, <2>b, Zenon DEF BoundInv, NewestInv
  <2>4. AskedInv' /\ SetInv' /\ BrokenInv'
    BY <1>b, <1>c, <1>0, <2>a, <2>b, Zenon DEF AskedInv, SetInv, BrokenInv
  <2>5. ClientInv' /\ UsedNotOlder'
    BY <1>b, <1>0, <2>a, <2>b, Zenon DEF ClientInv, UsedNotOlder
  <2> QED
    BY <2>1, <2>2, <2>3, <2>4, <2>5, Zenon
<1>2. CASE proc[p].route = "worker"
  <2>b. broken' = FALSE /\ client' = [r \in Routes |-> 0]
    BY <1>2, Zenon DEF LockPanics
  <2>d. ASSUME NEW r \in Routes PROVE Handling(r, "aborted") \in ProcType
    BY <2>d, LookupsType DEF ProcType, Handling, PCs, Unused
  <2>c. proc' \in [Requests -> ProcType]
    BY <1>2, <1>y, <2>d, ZenonT(40) DEF LockPanics, Types, Typing
  <2>a. \A q \in Requests :
          \/ proc'[q] = proc[q]
          \/ proc'[q].pc = "aborted" /\ proc'[q].got = 0 /\ proc'[q].used = Unused
    <3>1. \A r : /\ Handling(r, "aborted").pc = "aborted" /\ Handling(r, "aborted").got = 0
                 /\ Handling(r, "aborted").used = Unused
      BY Zenon DEF Handling
    <3>2. \A q \in Requests : proc'[q] \in {proc[q], Handling(proc[q].route, "aborted")}
      BY <1>2, Zenon DEF LockPanics
    <3> QED
      BY <3>1, <3>2, Zenon
  <2>1. Types'
    BY <1>b, <2>b, <2>c, Zenon DEF Types
  <2>2. ProgressInv' /\ MutexInv'
    BY <1>b, <1>c, <2>a, Zenon DEF ProgressInv, MutexInv, Before
  <2>3. BoundInv'
    BY <1>b, <1>y, <2>a, <2>b, Bounds DEF BoundInv, Typing
  <2>4. NewestInv'
    BY <1>b, <1>0, Zenon DEF NewestInv
  <2>5. AskedInv' /\ SetInv' /\ BrokenInv'
    BY <1>b, <1>c, <1>0, <2>a, <2>b, Zenon DEF AskedInv, SetInv, BrokenInv
  <2>6. ClientInv' /\ UsedNotOlder'
    BY <1>b, <1>0, Zenon DEF ClientInv, UsedNotOlder
  <2> QED
    BY <2>1, <2>2, <2>3, <2>4, <2>5, <2>6, Zenon
<1> QED
  BY <1>1, <1>2, Zenon

\* A new token is issued after all others.
LEMMA FetchStep == ASSUME IndInv, NEW p \in Requests, Fetch(p) PROVE IndInv'
<1> USE DEF IndInv
<1>y. Typing
  BY Typed, Zenon
<1>a. \A q \in Requests :
        /\ proc'[q].pc = IF q = p THEN "set" ELSE proc[q].pc
        /\ proc'[q].got = proc[q].got /\ proc'[q].at = proc[q].at
        /\ proc'[q].used = proc[q].used
        /\ proc'[q].todo = proc[q].todo
        /\ proc'[q].route = proc[q].route
  BY Zenon DEF Fetch, Types, ProcType
<1>b. PICK t \in proc[p].at .. now : token' = t + Lifetime
  BY Zenon DEF Fetch
<1>c. UNCHANGED <<now, broken, mutex, client, faults, garbled>> /\ issued' = issued + 1 /\ proc[p].pc = "fetch"
  BY Zenon DEF Fetch
<1>d. t \in Nat /\ t <= now /\ t >= proc[p].at
  BY <1>b, <1>y DEF Typing
<1>e. proc' \in [Requests -> ProcType]
  BY Zenon DEF Fetch, Types, ProcType, PCs
<1>f. /\ \A r \in Routes : client[r] <= t + Lifetime
      /\ \A q \in Requests : proc[q].got <= t + Lifetime
  <2>1. /\ \A r \in Routes : client[r] <= proc[p].at + Lifetime
        /\ \A q \in Requests : proc[q].got <= proc[p].at + Lifetime
    BY <1>c, Zenon DEF AskedInv
  <2> QED
    BY <2>1, <1>d, <1>y, Bounds DEF Typing
<1>1. Types'
  BY <1>b, <1>c, <1>d, <1>e, Bounds DEF Types
<1>2. ProgressInv'
  BY <1>y, Bounds, <1>a, <1>b, <1>c, <1>d, <1>f DEF Typing, ProgressInv, Before, Torn, Unused
<1>3. MutexInv'
  BY <1>y, Bounds, <1>a, <1>b, <1>c, <1>d, <1>f, Zenon DEF Typing, MutexInv
<1>4. BoundInv'
  BY <1>y, Bounds, <1>a, <1>b, <1>c, <1>d, <1>f DEF Typing, BoundInv
<1>5. AskedInv'
  BY <1>y, Bounds, <1>a, <1>b, <1>c, <1>d, <1>f, Zenon DEF Typing, AskedInv, BoundInv, MutexInv
<1>6. NewestInv'
  BY <1>y, Bounds, <1>a, <1>b, <1>c, <1>d, <1>f, Zenon DEF Typing, BoundInv, AskedInv, NewestInv
<1>7. SetInv'
  BY <1>y, Bounds, <1>a, <1>b, <1>c, <1>d, <1>f DEF Typing, SetInv, MutexInv
<1>8. ClientInv'
  BY <1>y, Bounds, <1>a, <1>b, <1>c, <1>d, <1>f, Zenon DEF Typing, ClientInv, NewestInv, SetInv
<1>9. BrokenInv'
  BY <1>y, Bounds, <1>a, <1>b, <1>c, <1>d, <1>f, Zenon DEF Typing, BrokenInv, MutexInv
<1>10. UsedNotOlder'
  BY <1>y, Bounds, <1>a, <1>b, <1>c, <1>d, <1>f DEF Typing, UsedNotOlder, ProgressInv, Before, Torn, Unused
<1> QED
  BY <1>1, <1>2, <1>3, <1>4, <1>5, <1>6, <1>7, <1>8, <1>9, <1>10, Zenon

\* From here on an empty token is to be expected.
LEMMA FetchGarbledStep == ASSUME IndInv, NEW p \in Requests, FetchGarbled(p) PROVE IndInv'
<1> USE DEF IndInv
<1>y. Typing
  BY Typed, Zenon
<1>a. \A q \in Requests :
        /\ proc'[q].pc = IF q = p THEN "set" ELSE proc[q].pc
        /\ proc'[q].got = proc[q].got /\ proc'[q].at = proc[q].at
        /\ proc'[q].used = proc[q].used
        /\ proc'[q].todo = proc[q].todo
        /\ proc'[q].route = proc[q].route
  BY Zenon DEF FetchGarbled, Types, ProcType
<1>b. /\ UNCHANGED <<now, mutex, client, issued>> /\ token' = 0 /\ garbled' = TRUE /\ broken' \in BOOLEAN
      /\ proc[p].pc = "fetch" /\ faults' \in 0 .. MaxFaults
  BY Bounds DEF FetchGarbled, Types
<1>c. proc' \in [Requests -> ProcType]
  BY Zenon DEF FetchGarbled, Types, ProcType, PCs
<1>1. Types'
  BY <1>b, <1>c, Zenon DEF Types
<1>2. ProgressInv'
  BY <1>y, Bounds, <1>a, <1>b DEF Typing, ProgressInv, Before, Torn, Unused
<1>3. MutexInv'
  BY <1>y, Bounds, <1>a, <1>b, Zenon DEF Typing, MutexInv
<1>4. BoundInv'
  BY <1>y, Bounds, <1>a, <1>b DEF Typing, BoundInv
<1>5. AskedInv'
  BY <1>y, Bounds, <1>a, <1>b, Zenon DEF Typing, AskedInv, BoundInv, MutexInv
<1>6. NewestInv'
  BY <1>y, Bounds, <1>a, <1>b, Zenon DEF Typing, BoundInv, AskedInv, NewestInv
<1>7. SetInv'
  BY <1>y, Bounds, <1>a, <1>b, Zenon DEF Typing, SetInv, MutexInv
<1>8. ClientInv'
  BY <1>y, Bounds, <1>a, <1>b, Zenon DEF Typing, ClientInv, NewestInv, SetInv
<1>9. BrokenInv'
  BY <1>y, Bounds, <1>a, <1>b, Zenon DEF Typing, BrokenInv, MutexInv
<1>10. UsedNotOlder'
  BY <1>y, Bounds, <1>a, <1>b, Zenon DEF Typing, UsedNotOlder, ProgressInv, Before, Torn, Unused
<1> QED
  BY <1>1, <1>2, <1>3, <1>4, <1>5, <1>6, <1>7, <1>8, <1>9, <1>10, Zenon

\* The mutex is released, and the clients keep their tokens.
LEMMA FetchFailsStep == ASSUME IndInv, NEW p \in Requests, FetchFails(p) PROVE IndInv'
<1> USE DEF IndInv
<1>y. Typing
  BY Typed, Zenon
<1>a. \A q \in Requests :
        /\ proc'[q].pc = IF q = p THEN Answer(proc[p].route, "token") ELSE proc[q].pc
        /\ proc'[q].got = proc[q].got /\ proc'[q].at = proc[q].at
        /\ proc'[q].used = proc[q].used
        /\ proc'[q].todo = proc[q].todo
        /\ proc'[q].route = proc[q].route
  BY Zenon DEF FetchFails, Types, ProcType
<1>b. /\ UNCHANGED <<now, broken, client, issued, garbled>> /\ token' = 0 /\ mutex' = None
      /\ proc[p].pc = "fetch" /\ faults' \in 0 .. MaxFaults
  BY Bounds DEF FetchFails, Types
<1>c. Answer(proc[p].route, "token") \in Answers
  BY AnswerType, Zenon
<1>d. proc' \in [Requests -> ProcType]
  BY <1>c, Zenon DEF FetchFails, Types, ProcType, PCs
<1>1. Types'
  BY <1>b, <1>d, Zenon DEF Types
<1>2. ProgressInv'
  BY <1>y, Bounds, <1>a, <1>b, <1>c, Zenon DEF Typing, ProgressInv, Before, Torn, Unused, Answers
<1>3. MutexInv'
  BY <1>y, Bounds, <1>a, <1>b, <1>c, Zenon DEF Typing, MutexInv, Answers
<1>4. BoundInv'
  BY <1>y, Bounds, <1>a, <1>b, <1>c DEF Typing, BoundInv, Answers
<1>5. AskedInv'
  BY <1>y, Bounds, <1>a, <1>b, <1>c, Zenon DEF Typing, AskedInv, BoundInv, MutexInv, Answers
<1>6. NewestInv'
  BY <1>y, Bounds, <1>a, <1>b, <1>c, Zenon DEF Typing, BoundInv, AskedInv, NewestInv, Answers
<1>7. SetInv'
  BY <1>y, Bounds, <1>a, <1>b, <1>c, Zenon DEF Typing, SetInv, MutexInv, Answers
<1>8. ClientInv'
  BY <1>y, Bounds, <1>a, <1>b, <1>c, Zenon DEF Typing, ClientInv, NewestInv, SetInv, Answers
<1>9. BrokenInv'
  BY <1>y, Bounds, <1>a, <1>b, <1>c, Zenon DEF Typing, BrokenInv, MutexInv, Answers
<1>10. UsedNotOlder'
  BY <1>y, Bounds, <1>a, <1>b, <1>c, Zenon DEF Typing, UsedNotOlder, ProgressInv, Before, Torn, Unused, Answers
<1> QED
  BY <1>1, <1>2, <1>3, <1>4, <1>5, <1>6, <1>7, <1>8, <1>9, <1>10, Zenon

\* The client gets the newest token.
LEMMA SetTokenStep == ASSUME IndInv, NEW p \in Requests, SetToken(p) PROVE IndInv'
<1> USE DEF IndInv
<1>y. Typing
  BY Typed, Zenon
<1>a. \A q \in Requests :
        /\ proc'[q].pc = IF q = p THEN "lookup" ELSE proc[q].pc
        /\ proc'[q].got = (IF q = p THEN token ELSE proc[q].got) /\ proc'[q].at = proc[q].at
        /\ proc'[q].used = proc[q].used
        /\ proc'[q].todo = proc[q].todo
        /\ proc'[q].route = proc[q].route
  BY Zenon DEF SetToken, Types, ProcType
<1>b. /\ UNCHANGED <<now, token, broken, faults, issued, garbled>> /\ mutex' = None /\ proc[p].pc = "set"
      /\ \A r \in Routes : client'[r] = IF r = proc[p].route THEN token ELSE client[r]
  BY Zenon DEF SetToken, Types
<1>c. client' \in [Routes -> Nat]
  BY Zenon DEF SetToken, Types, ProcType
<1>e. \A q \in Requests : proc'[q].pc # "fetch"
  BY <1>a, <1>b DEF MutexInv
<1>d. proc' \in [Requests -> ProcType]
  BY Zenon DEF SetToken, Types, ProcType, PCs
<1>1. Types'
  BY <1>b, <1>c, <1>d, Zenon DEF Types
<1>2. ProgressInv'
  BY <1>y, Bounds, <1>a, <1>b, <1>e DEF Typing, ProgressInv, Before, Torn, Unused
<1>3. MutexInv'
  BY <1>y, Bounds, <1>a, <1>b, <1>e, Zenon DEF Typing, MutexInv
<1>4. BoundInv'
  BY <1>y, Bounds, <1>a, <1>b, <1>e, Zenon DEF Typing, BoundInv
<1>5. AskedInv'
  BY <1>y, Bounds, <1>a, <1>b, <1>e, Zenon DEF Typing, AskedInv, BoundInv, MutexInv
<1>6. NewestInv'
  BY <1>y, Bounds, <1>a, <1>b, <1>e DEF Typing, BoundInv, AskedInv, NewestInv
<1>7. SetInv'
  BY <1>y, Bounds, <1>a, <1>b, <1>e, Zenon DEF Typing, SetInv, MutexInv
<1>8. ClientInv'
  BY <1>y, Bounds, <1>a, <1>b, <1>e, SMTT(30) DEF Typing, ClientInv, NewestInv, SetInv
<1>9. BrokenInv'
  BY <1>y, Bounds, <1>a, <1>b, <1>e, Zenon DEF Typing, BrokenInv, MutexInv
<1>10. UsedNotOlder'
  BY <1>y, Bounds, <1>a, <1>b, <1>e DEF Typing, UsedNotOlder, ProgressInv, Before, Torn, Unused
<1> QED
  BY <1>1, <1>2, <1>3, <1>4, <1>5, <1>6, <1>7, <1>8, <1>9, <1>10, Zenon

\* A lookup uses a token that can be read, none of which is older.
LEMMA LookupStep == ASSUME IndInv, NEW p \in Requests, Lookup(p) PROVE IndInv'
<1> USE DEF IndInv
<1>y. Typing
  BY Typed, Zenon
<1>t. PICK t \in Readable(p) :
        proc' = [proc EXCEPT ![p].used = t, ![p].todo = Tail(proc[p].todo),
                             ![p].pc = IF Tail(proc[p].todo) = <<>> THEN "mail" ELSE "lookup"]
  BY Zenon DEF Lookup
<1>b. UNCHANGED <<now, token, broken, mutex, client, faults, issued, garbled>> /\ proc[p].pc = "lookup"
  BY Zenon DEF Lookup
<1>c. t \in Nat \cup {Torn} /\ (t = Torn \/ t >= proc[p].got \/ garbled)
  BY <1>b, ReadableBound, Zenon
<1>d. Tail(proc[p].todo) \in Seq(Names)
  BY <1>b DEF Types, ProcType, ProgressInv
<1>e. proc' \in [Requests -> ProcType]
  <2>1. t \in Int
    BY <1>c DEF Torn
  <2>2. (IF Tail(proc[p].todo) = <<>> THEN "mail" ELSE "lookup") \in PCs
    BY Zenon DEF PCs
  <2>3. proc \in [Requests -> ProcType]
    BY Zenon DEF Types
  <2> QED
    BY <1>t, <1>d, <2>1, <2>2, <2>3, Zenon DEF ProcType
<1>a. \A q \in Requests :
        /\ proc'[q].pc = IF q = p THEN IF Tail(proc[p].todo) = <<>> THEN "mail" ELSE "lookup" ELSE proc[q].pc
        /\ proc'[q].got = proc[q].got /\ proc'[q].at = proc[q].at
        /\ proc'[q].used = (IF q = p THEN t ELSE proc[q].used)
        /\ proc'[q].todo = (IF q = p THEN Tail(proc[p].todo) ELSE proc[q].todo)
        /\ proc'[q].route = proc[q].route
  BY <1>t, Zenon DEF Types, ProcType
<1>1. Types'
  BY <1>b, <1>e, Zenon DEF Types
<1>2. ProgressInv'
  BY <1>y, Bounds, <1>a, <1>b, <1>c, Zenon DEF Typing, ProgressInv, Before, Torn, Unused
<1>3. MutexInv'
  BY <1>y, Bounds, <1>a, <1>b, <1>c, Zenon DEF Typing, MutexInv
<1>4. BoundInv'
  BY <1>y, Bounds, <1>a, <1>b, <1>c, Zenon DEF Typing, BoundInv
<1>5. AskedInv'
  BY <1>y, Bounds, <1>a, <1>b, <1>c, Zenon DEF Typing, AskedInv, BoundInv, MutexInv
<1>6. NewestInv'
  BY <1>y, Bounds, <1>a, <1>b, <1>c, Zenon DEF Typing, BoundInv, AskedInv, NewestInv
<1>7. SetInv'
  BY <1>y, Bounds, <1>a, <1>b, <1>c, Zenon DEF Typing, SetInv, MutexInv
<1>8. ClientInv'
  BY <1>y, Bounds, <1>a, <1>b, <1>c, Zenon DEF Typing, ClientInv, NewestInv, SetInv
<1>9. BrokenInv'
  BY <1>y, Bounds, <1>a, <1>b, <1>c, Zenon DEF Typing, BrokenInv, MutexInv
<1>10. UsedNotOlder'
  BY <1>y, Bounds, <1>a, <1>b, <1>c, Zenon DEF Typing, UsedNotOlder, ProgressInv, Before, Torn, Unused
<1> QED
  BY <1>1, <1>2, <1>3, <1>4, <1>5, <1>6, <1>7, <1>8, <1>9, <1>10, Zenon

\* The same holds for a lookup that fails.
LEMMA LookupFailsStep == ASSUME IndInv, NEW p \in Requests, LookupFails(p) PROVE IndInv'
<1> USE DEF IndInv
<1>y. Typing
  BY Typed, Zenon
<1>t. PICK t \in Readable(p) :
        proc' = [proc EXCEPT ![p].used = t,
                             ![p].pc = Answer(proc[p].route, Head(proc[p].todo))]
  BY Zenon DEF LookupFails
<1>b. /\ UNCHANGED <<now, token, broken, mutex, client, issued, garbled>> /\ proc[p].pc = "lookup"
      /\ faults' \in 0 .. MaxFaults
  BY Bounds DEF LookupFails, Types
<1>c. t \in Nat \cup {Torn} /\ (t = Torn \/ t >= proc[p].got \/ garbled)
  BY <1>b, ReadableBound, Zenon
<1>d. Answer(proc[p].route, Head(proc[p].todo)) \in Answers
  BY AnswerType, Zenon
<1>e. proc' \in [Requests -> ProcType]
  <2>1. t \in Int
    BY <1>c DEF Torn
  <2> QED
    BY <1>t, <1>d, <2>1, Zenon DEF Types, ProcType, PCs
<1>a. \A q \in Requests :
        /\ proc'[q].pc = IF q = p THEN Answer(proc[p].route, Head(proc[p].todo)) ELSE proc[q].pc
        /\ proc'[q].got = proc[q].got /\ proc'[q].at = proc[q].at
        /\ proc'[q].used = (IF q = p THEN t ELSE proc[q].used)
        /\ proc'[q].todo = proc[q].todo
        /\ proc'[q].route = proc[q].route
  BY <1>t, Zenon DEF Types, ProcType
<1>1. Types'
  BY <1>b, <1>e, Zenon DEF Types
<1>2. ProgressInv'
  BY <1>y, Bounds, <1>a, <1>b, <1>c, <1>d, Zenon DEF Typing, ProgressInv, Before, Torn, Unused, Answers
<1>3. MutexInv'
  BY <1>y, Bounds, <1>a, <1>b, <1>c, <1>d, Zenon DEF Typing, MutexInv, Answers
<1>4. BoundInv'
  BY <1>y, Bounds, <1>a, <1>b, <1>c, <1>d, Zenon DEF Typing, BoundInv, Answers
<1>5. AskedInv'
  BY <1>y, Bounds, <1>a, <1>b, <1>c, <1>d, Zenon DEF Typing, AskedInv, BoundInv, MutexInv, Answers
<1>6. NewestInv'
  BY <1>y, Bounds, <1>a, <1>b, <1>c, <1>d, Zenon DEF Typing, BoundInv, AskedInv, NewestInv, Answers
<1>7. SetInv'
  BY <1>y, Bounds, <1>a, <1>b, <1>c, <1>d, Zenon DEF Typing, SetInv, MutexInv, Answers
<1>8. ClientInv'
  BY <1>y, Bounds, <1>a, <1>b, <1>c, <1>d, Zenon DEF Typing, ClientInv, NewestInv, SetInv, Answers
<1>9. BrokenInv'
  BY <1>y, Bounds, <1>a, <1>b, <1>c, <1>d, Zenon DEF Typing, BrokenInv, MutexInv, Answers
<1>10. UsedNotOlder'
  BY <1>y, Bounds, <1>a, <1>b, <1>c, <1>d, Zenon DEF Typing, UsedNotOlder, ProgressInv, Before, Torn, Unused, Answers
<1> QED
  BY <1>1, <1>2, <1>3, <1>4, <1>5, <1>6, <1>7, <1>8, <1>9, <1>10, Zenon

\* The request is over.
LEMMA MailStep == ASSUME IndInv, NEW p \in Requests, Mail(p) PROVE IndInv'
<1> USE DEF IndInv
<1>y. Typing
  BY Typed, Zenon
<1>t. /\ proc' = [proc EXCEPT ![p] = Handling(proc[p].route, "200")]
      /\ UNCHANGED <<now, token, broken, mutex, client, faults, issued, garbled>>
  BY Zenon DEF Mail
<1>d. Handling(proc[p].route, "200") \in ProcType
  <2>1. proc[p].route \in Routes /\ "200" \in PCs
    BY <1>y, Zenon DEF Typing, PCs, Answers
  <2>2. Lookups(proc[p].route) \in Seq(Names)
    BY <2>1, LookupsType, Zenon
  <2> QED
    BY <2>1, <2>2 DEF ProcType, Handling, Unused
<1>a. \A q \in Requests :
        /\ proc'[q].pc = IF q = p THEN "200" ELSE proc[q].pc
        /\ proc'[q].got = (IF q = p THEN 0 ELSE proc[q].got) /\ proc'[q].at = (IF q = p THEN 0 ELSE proc[q].at)
        /\ proc'[q].used = (IF q = p THEN Unused ELSE proc[q].used)
        /\ proc'[q].todo = (IF q = p THEN Lookups(proc[p].route) ELSE proc[q].todo)
        /\ proc'[q].route = proc[q].route
  BY <1>t, Zenon DEF Handling, Types, ProcType
<1>1. Types'
  BY <1>t, <1>d, Zenon DEF Types
<1>2. ProgressInv'
  BY <1>y, Bounds, <1>a, <1>t DEF Typing, ProgressInv, Before, Torn, Unused
<1>3. MutexInv'
  BY <1>y, Bounds, <1>a, <1>t DEF Typing, MutexInv
<1>4. BoundInv'
  BY <1>y, Bounds, <1>a, <1>t DEF Typing, BoundInv
<1>5. AskedInv'
  BY <1>y, Bounds, <1>a, <1>t DEF Typing, AskedInv, BoundInv, MutexInv
<1>6. NewestInv'
  BY <1>y, Bounds, <1>a, <1>t DEF Typing, BoundInv, AskedInv, NewestInv
<1>7. SetInv'
  BY <1>y, Bounds, <1>a, <1>t DEF Typing, SetInv, MutexInv
<1>8. ClientInv'
  BY <1>y, Bounds, <1>a, <1>t DEF Typing, ClientInv, NewestInv, SetInv
<1>9. BrokenInv'
  BY <1>y, Bounds, <1>a, <1>t DEF Typing, BrokenInv, MutexInv
<1>10. UsedNotOlder'
  BY <1>y, Bounds, <1>a, <1>t, Zenon DEF Typing, UsedNotOlder, ProgressInv, Before, Torn, Unused
<1> QED
  BY <1>1, <1>2, <1>3, <1>4, <1>5, <1>6, <1>7, <1>8, <1>9, <1>10, Zenon

\* The clock only gives everything more time.
LEMMA TickStep == ASSUME IndInv, Tick PROVE IndInv'
<1> USE DEF IndInv, Tick
<1>1. Types'
  BY Bounds DEF Types
<1>2. ProgressInv' /\ MutexInv' /\ NewestInv' /\ SetInv' /\ ClientInv'
  BY Zenon DEF ProgressInv, MutexInv, NewestInv, SetInv, ClientInv
<1>3. BoundInv' /\ AskedInv'
  BY Typed, Bounds DEF Typing, BoundInv, AskedInv
<1>4. BrokenInv' /\ UsedNotOlder'
  BY Zenon DEF BrokenInv, UsedNotOlder
<1> QED
  BY <1>1, <1>2, <1>3, <1>4, Zenon

LEMMA StutterStep == ASSUME IndInv, UNCHANGED vars PROVE IndInv'
<1> USE DEF IndInv, vars
<1>1. Types' /\ ProgressInv' /\ MutexInv'
  BY Zenon DEF Types, ProgressInv, MutexInv
<1>2. BoundInv' /\ AskedInv' /\ NewestInv' /\ SetInv' /\ ClientInv'
  BY Zenon DEF BoundInv, AskedInv, NewestInv, SetInv, ClientInv
<1>3. BrokenInv' /\ UsedNotOlder'
  BY Zenon DEF BrokenInv, UsedNotOlder
<1> QED
  BY <1>1, <1>2, <1>3, Zenon

\* The inductive invariant holds throughout.
THEOREM IndInvCorrect == Spec => []IndInv
<1>1. Init => IndInv
  BY InitHolds, Zenon
<1>2. IndInv /\ [Next]_vars => IndInv'
  BY DispatchStep, LockStep, LockPanicsStep, FetchStep, FetchGarbledStep, FetchFailsStep, SetTokenStep, LookupStep,
     LookupFailsStep, MailStep, TickStep, StutterStep, Zenon
  DEF Next, Handle
<1> QED
  BY <1>1, <1>2, PTL DEF Spec

\* Every variable keeps its type, for any constants.
THEOREM TypeCorrect == Spec => []TypeOK
<1>1. IndInv => TypeOK
  BY Zenon DEF IndInv, Types, ProcType, PCs, Open, ProgressInv, TypeOK
<1> QED
  BY <1>1, IndInvCorrect, PTL

\* Requests that share a UAA client never make each other's lookups go out
\* with an older token than their own.
THEOREM TokensNotOlder == Spec => []UsedNotOlder
<1>1. IndInv => UsedNotOlder
  BY Zenon DEF IndInv
<1> QED
  BY <1>1, IndInvCorrect, PTL
-----------------------------------------------------------------------------
(* How many tokens UAA issues.                                             *)

\* A token that is issued at t is asked for again at t + Period at the
\* earliest, unless a call failed in between.
Period == Lifetime

\* The time that the tokens issued so far account for.
Spent(i, f) == (i - f) * Period

\* The last token was issued when the ones before it had run out; a token that
\* is missing or being fetched may be issued at any time from now on.
IssuedInv ==
    /\ token # 0 => Spent(issued, faults) - Period <= token - Lifetime - 1
    /\ token = 0 => Spent(issued, faults) <= now - 1
    /\ \A p \in Requests : proc[p].pc = "fetch" => Spent(issued, faults) <= proc[p].at - 1

\* One token more takes one period more, a failed call one less.
LEMMA Spending ==
    /\ Period \in Nat /\ Period > 0
    /\ \A i, f \in Nat : /\ Spent(i, f) \in Int
                         /\ Spent(i + 1, f) = Spent(i, f) + Period
                         /\ Spent(i, f + 1) = Spent(i, f) - Period
<1>1. Period \in Nat /\ Period > 0
  BY Bounds DEF Period
<1>2. ASSUME NEW x \in Int PROVE /\ x * Period \in Int
                                 /\ (x + 1) * Period = x * Period + Period
                                 /\ (x - 1) * Period = x * Period - Period
  BY <1>1
<1>3. ASSUME NEW i \in Nat, NEW f \in Nat
      PROVE  /\ Spent(i, f) \in Int
             /\ Spent(i + 1, f) = Spent(i, f) + Period
             /\ Spent(i, f + 1) = Spent(i, f) - Period
  <2>1. i - f \in Int /\ (i + 1) - f = (i - f) + 1 /\ i - (f + 1) = (i - f) - 1
    OBVIOUS
  <2> QED
    BY <2>1, <1>2 DEF Spent
<1> QED
  BY <1>1, <1>3, Zenon

\* What fits into n periods is at most n.
LEMMA Periods ==
    ASSUME NEW a \in Int, NEW n \in Nat, a * Period <= n
    PROVE  a <= n \div Period
<1> DEFINE q == n \div Period
<1>1. Period \in Nat /\ Period > 0
  BY Spending, Zenon
<1>2. q \in Int /\ n < (q + 1) * Period
  BY <1>1
<1> HIDE DEF q
<1>3. CASE a >= q + 1
  <2>1. a * Period >= (q + 1) * Period
    BY <1>1, <1>2, <1>3
  <2> QED
    BY <2>1, <1>1, <1>2
<1> QED
  BY <1>2, <1>3 DEF q

\* What the steps below compare.
LEMMA SpendingTypes ==
    ASSUME IndInv
    PROVE  /\ Typing /\ issued \in Nat /\ faults \in Nat /\ Spent(issued, faults) \in Int
           /\ token <= now + Lifetime
<1>1. issued \in Nat /\ faults \in Nat
  BY Bounds DEF IndInv, Types
<1> QED
  BY <1>1, Typed, Spending, Zenon DEF IndInv, BoundInv

LEMMA LaterStill == \A t, s \in Int, n, m \in Nat : t <= s /\ s <= n - 1 /\ n <= m => t <= m - 1
  OBVIOUS

\* A step that issues nothing; a call may fail, and the token may be lost with it.
LEMMA Frugal ==
    ASSUME IndInv, IssuedInv, issued' = issued, now' \in Nat, now <= now',
           \/ faults' = faults /\ token' = token
           \/ faults' = faults + 1 /\ token' = token
           \/ faults' = faults + 1 /\ token' = 0 /\ \E p \in Requests : proc[p].pc = "fetch",
           \A q \in Requests : proc'[q].pc = "fetch" =>
               \/ proc[q].pc = "fetch" /\ proc'[q].at = proc[q].at
               \/ /\ proc'[q].at = now /\ faults' = faults /\ token' = token
                  /\ NewTokenRequired
    PROVE  IssuedInv'
<1>1. /\ Typing /\ issued \in Nat /\ faults \in Nat /\ Spent(issued, faults) \in Int
      /\ Period \in Nat
      /\ Spent(issued', faults') \in {Spent(issued, faults), Spent(issued, faults) - Period}
      /\ (faults' = faults => Spent(issued', faults') = Spent(issued, faults))
  BY SpendingTypes, Spending, Zenon
<1> DEFINE s == Spent(issued, faults)
           t == Spent(issued', faults')
<1>2. /\ s \in Int /\ t \in Int /\ t <= s
      /\ token # 0 => s - Period <= token - Lifetime - 1
      /\ token = 0 => s <= now - 1
      /\ \A p \in Requests : proc[p].pc = "fetch" => s <= proc[p].at - 1
  BY <1>1, Zenon, SMT DEF IssuedInv
<1>3. \A q \in Requests : proc[q].pc = "fetch" => proc[q].at <= now /\ proc[q].at \in Nat
  BY <1>1, Zenon DEF IndInv, AskedInv, Typing
<1>4. now \in Nat /\ token \in Nat /\ Lifetime \in Nat /\ Buffer \in Nat
  BY <1>1, Bounds, Zenon DEF Typing
<1> HIDE DEF s, t
<1>5. token' # 0 => t - Period <= token' - Lifetime - 1
  BY <1>1, <1>2, <1>4
<1>6. ASSUME token' = 0 PROVE t <= now' - 1
  <2>1. s <= now - 1
    BY <1>2, <1>3, <1>4, <1>6
  <2> QED
    BY <2>1, <1>2, <1>4, LaterStill, Zenon
<1>7. ASSUME NEW q \in Requests, proc'[q].pc = "fetch" PROVE t <= proc'[q].at - 1
  <2>1. CASE proc[q].pc = "fetch" /\ proc'[q].at = proc[q].at
    BY <2>1, <1>1, <1>2, <1>3
  <2>2. CASE proc'[q].at = now /\ faults' = faults /\ token' = token /\ NewTokenRequired
    BY <2>2, <1>1, <1>2, <1>4 DEF NewTokenRequired, Period
  <2> QED
    BY <1>7, <2>1, <2>2, Zenon
<1> QED
  BY <1>5, <1>6, <1>7, Zenon DEF IssuedInv, s, t

\* A new token is paid for by the time that had passed when it was asked for.
LEMMA FetchIssued ==
    ASSUME IndInv, IssuedInv, NEW p \in Requests, Fetch(p)
    PROVE  IssuedInv'
<1>1. /\ Typing /\ issued \in Nat /\ faults \in Nat /\ Spent(issued, faults) \in Int
      /\ Period \in Nat /\ Lifetime \in Nat /\ Lifetime > 0
      /\ Spent(issued + 1, faults) = Spent(issued, faults) + Period
  BY SpendingTypes, Spending, Bounds, Zenon
<1>2. /\ issued' = issued + 1 /\ faults' = faults /\ now' = now /\ proc[p].pc = "fetch"
      /\ Spent(issued, faults) <= proc[p].at - 1
  BY Zenon DEF Fetch, IssuedInv
<1>3. PICK t \in proc[p].at .. now : token' = t + Lifetime
  BY Zenon DEF Fetch
<1>4. proc[p].at \in Nat /\ now \in Nat
  BY <1>1, Zenon DEF Typing
<1>5. token' # 0 /\ Spent(issued', faults') - Period <= token' - Lifetime - 1
  BY <1>1, <1>2, <1>3, <1>4
<1>6. \A q \in Requests : proc'[q].pc # "fetch"
  BY <1>2, Zenon DEF Fetch, IndInv, MutexInv, Types, ProcType
<1> QED
  BY <1>5, <1>6, Zenon DEF IssuedInv

LEMMA IssuedInit == Init => IssuedInv
<1> SUFFICES ASSUME Init PROVE IssuedInv
  BY Zenon
<1>1. Spent(0, 0) = 0
  BY Spending DEF Spent
<1>2. /\ token = 0 /\ now = 1 /\ issued = 0 /\ faults = 0
      /\ \A p \in Requests : proc[p].pc = "idle"
  BY Zenon DEF Init, Handling
<1> QED
  BY <1>1, <1>2 DEF IssuedInv

LEMMA IssuedStep == IndInv /\ IssuedInv /\ [Next]_vars => IssuedInv'
<1> SUFFICES ASSUME IndInv, IssuedInv, [Next]_vars PROVE IssuedInv'
  BY Zenon
<1>t. now \in Nat /\ now <= now /\ now + 1 \in Nat /\ now <= now + 1
  BY SpendingTypes DEF Typing
<1>r. proc \in [Requests -> ProcType]
  BY Zenon DEF IndInv, Types
<1>1. ASSUME NEW p \in Requests, Dispatch(p) PROVE IssuedInv'
  <2>1. \A q \in Requests : proc'[q].pc = "fetch" => proc[q].pc = "fetch" /\ proc'[q].at = proc[q].at
    <3>1. PICK r \in Routes, pc \in {"mail", "lock", "406"} :
            proc' = [proc EXCEPT ![p] = Handling(r, pc)]
      BY <1>1, Bounds, Zenon DEF Dispatch
    <3>2. Handling(r, pc).pc # "fetch"
      BY Zenon DEF Handling
    <3> QED
      BY <1>r, <3>1, <3>2, Zenon
  <2> QED
    BY <1>1, <1>t, <2>1, Frugal, Zenon DEF Dispatch
<1>2. ASSUME NEW p \in Requests, Lock(p) PROVE IssuedInv'
  <2>1. \A q \in Requests : proc'[q].pc = "fetch" =>
          \/ proc[q].pc = "fetch" /\ proc'[q].at = proc[q].at
          \/ proc'[q].at = now /\ NewTokenRequired
    BY <1>2, <1>r, Zenon DEF Lock, ProcType
  <2> QED
    BY <1>2, <1>t, <2>1, Frugal, Zenon DEF Lock
<1>3. ASSUME NEW p \in Requests, FetchGarbled(p) \/ FetchFails(p) PROVE IssuedInv'
  <2>1. Answer(proc[p].route, "token") # "fetch"
    BY AnswerType, Zenon DEF Answers
  <2>2. \A q \in Requests : proc'[q].pc = "fetch" => proc[q].pc = "fetch" /\ proc'[q].at = proc[q].at
    BY <1>3, <1>r, <2>1, Zenon DEF FetchGarbled, FetchFails, ProcType
  <2> QED
    BY <1>3, <1>t, <2>2, Frugal, Zenon DEF FetchGarbled, FetchFails
<1>p. ASSUME NEW p \in Requests, LockPanics(p) PROVE IssuedInv'
  <2>1. \A q \in Requests : proc'[q].pc = "fetch" => proc[q].pc = "fetch" /\ proc'[q].at = proc[q].at
    <3>1. \A r : Handling(r, "aborted").pc = "aborted"
      BY Zenon DEF Handling
    <3>2. \/ proc' = [proc EXCEPT ![p].pc = "500"]
          \/ \A q \in Requests : proc'[q] \in {proc[q], Handling(proc[q].route, "aborted")}
      BY <1>p, PanicAnswer, Zenon DEF LockPanics
    <3> QED
      BY <1>r, <3>1, <3>2, Zenon DEF ProcType
  <2> QED
    BY <1>p, <1>t, <2>1, Frugal, Zenon DEF LockPanics
<1>4. ASSUME NEW p \in Requests, SetToken(p) \/ Lookup(p) \/ Mail(p) PROVE IssuedInv'
  <2>1. \A q \in Requests : proc'[q].pc = "fetch" => proc[q].pc = "fetch" /\ proc'[q].at = proc[q].at
    <3>1. CASE SetToken(p)
      BY <3>1, <1>r, Zenon DEF SetToken, ProcType
    <3>2. CASE Lookup(p)
      <4>1. PICK pc \in {"mail", "lookup"} : \E t, d :
              proc' = [proc EXCEPT ![p].used = t, ![p].todo = d, ![p].pc = pc]
        BY <3>2, Zenon DEF Lookup
      <4> QED
        BY <4>1, <1>r, ZenonT(30) DEF ProcType
    <3>3. CASE Mail(p)
      BY <3>3, <1>r, Zenon DEF Mail, Handling, ProcType
    <3> QED
      BY <1>4, <3>1, <3>2, <3>3, Zenon
  <2> QED
    BY <1>4, <1>t, <2>1, Frugal, Zenon DEF SetToken, Lookup, Mail
<1>5. ASSUME NEW p \in Requests, LookupFails(p) PROVE IssuedInv'
  <2>1. Answer(proc[p].route, Head(proc[p].todo)) # "fetch"
    BY AnswerType, Zenon DEF Answers
  <2>2. \A q \in Requests : proc'[q].pc = "fetch" => proc[q].pc = "fetch" /\ proc'[q].at = proc[q].at
    BY <1>5, <1>r, <2>1, Zenon DEF LookupFails, ProcType
  <2> QED
    BY <1>5, <1>t, <2>2, Frugal, Zenon DEF LookupFails
<1>6. CASE Tick
  BY <1>6, <1>t, Frugal, Zenon DEF Tick
<1>7. CASE UNCHANGED vars
  BY <1>7, <1>t, Frugal, Zenon DEF vars
<1> QED
  BY <1>1, <1>2, <1>3, <1>4, <1>5, <1>6, <1>7, <1>p, FetchIssued, Zenon DEF Next, Handle

\* Requests that find the token expired together fetch it once: UAA issues one
\* token per lifetime, and one more for each call that failed.
THEOREM TokensRare == Spec => []IssuedRarely
<1>1. IndInv /\ IssuedInv => IssuedRarely
  <2> SUFFICES ASSUME IndInv, IssuedInv PROVE IssuedRarely
    BY Zenon
  <2>1. /\ Typing /\ issued \in Nat /\ faults \in Nat /\ Spent(issued, faults) \in Int
        /\ token <= now + Lifetime /\ Period \in Nat /\ Lifetime \in Nat /\ now \in Nat
        /\ token \in Nat
    BY SpendingTypes, Spending, Bounds, Zenon DEF Typing
  <2>2. now - 1 \in Nat
    BY DEF IndInv, Types
  <2>3. Spent(issued, faults) - Period <= now - 1
    BY <2>1 DEF IssuedInv
  <2>4. Spent(issued, faults + 1) <= now - 1
    BY <2>1, <2>3, Spending
  <2>5. issued - (faults + 1) \in Int
    BY <2>1
  <2>6. issued - (faults + 1) <= (now - 1) \div Period
    BY <2>2, <2>4, <2>5, Periods DEF Spent
  <2>7. (now - 1) \div Period \in Int
    BY <2>2, Spending
  <2> QED
    BY <2>1, <2>6, <2>7 DEF IssuedRarely, Period
<1> QED
  BY <1>1, IndInvCorrect, IssuedInit, IssuedStep, PTL DEF Spec
=============================================================================
