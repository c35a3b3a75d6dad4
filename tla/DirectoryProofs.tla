--------------------------- MODULE DirectoryProofs --------------------------
(***************************************************************************)
(* Theorems about Directory, for any number of requests, references and    *)
(* rows, about Access, for any strings, requests, texts and secrets, about *)
(* StoragePairs, for any rows and sequence of operations, and about        *)
(* TraceQueries, for any number of writes.                                 *)
(***************************************************************************)
EXTENDS Directory, Access, StoragePairs, TraceQueries, SequenceTheorems,
        FiniteSetTheorems, WellFoundedInduction, NaturalsInduction, TLAPS

USE DirectoryAssumption

-----------------------------------------------------------------------------
(* The inductive invariant                                                 *)

\* The requests, with what each remembers from one transaction to the next.
Minting == {"mint", "select"}
Creating == {"subscription", "action", "done"}

Requests ==
    [op : {"none"}, at : {"idle"}]
    \cup [op : {"create"}, at : Minting \cup Creating, kind : {"user"}, ref : Ref,
          principal : Int, sub : Int, position : Int, last : Int]
    \cup [op : {"seed"}, at : Minting \cup {"done"}, kind : {"system"},
          ref : {"zero"}, principal : Int]
    \cup [op : {"start"}, at : Minting \cup {"run", "sweep", "event"},
          kind : {"run"}, ref : Int, principal : Int]
    \cup [op : {"subscribe"}, at : Creating, principal : Int, sub : Int,
          position : Int, last : Int]
    \cup [op : {"unsubscribe"}, at : {"get", "actions", "subscriptions"}, sub : Int]
    \cup [op : {"delete"}, at : {"get", "delete"}, principal : Int]

Types == rowsMade \in Nat /\ request \in [Caller -> Requests]

\* Ids are given out once, and what a principal refers to is of its kind.
Rows ==
    /\ \A p \in principals : /\ p.id \in 0 .. rowsMade
                             /\ p.kind = "system" => p.ref = "zero"
                             /\ p.kind = "run" => p.ref \in 1 .. rowsMade
    /\ \A p, q \in principals : p.id = q.id => p = q
    /\ \A p \in removed : p.id \in 0 .. rowsMade
    /\ old \subseteq 0 .. rowsMade
    /\ OneRowPerActor

\* The principal that a start minted, which the sweep must not take yet.
OwnPrincipal(c) ==
    \E p \in principals \union removed :
        /\ p.id = request[c].principal /\ p.kind = "run" /\ p.ref = request[c].ref
        /\ p \in principals => p.id \notin old

\* A start's reference is its own: its mint finds no other row.
StartFits(c) ==
    request[c].op = "start" =>
        /\ request[c].ref \in 1 .. rowsMade
        /\ request[c].at # "select"
        /\ request[c].at = "mint" =>
              \A p \in principals : p.kind = "run" => p.ref # request[c].ref
        /\ request[c].at = "run" => OwnPrincipal(c)

\* A principal that was read and is not the system's never becomes it.
DeleteFits(c) ==
    request[c].op = "delete" =>
        /\ request[c].principal \in 0 .. rowsMade
        /\ request[c].at = "delete" =>
              \A p \in principals : p.id = request[c].principal => ~IsSystem(p)

\* Subscription id of owner has its first n actions, or someone took it away.
Whole(id, owner, n) ==
    \/ id \in dropped
    \/ \E p \in removed : p.id = owner
    \/ /\ \E t \in subs : t.id = id /\ t.owner = owner
       /\ \A i \in 0 .. n - 1 : [sub |-> id, position |-> i] \in actions

\* How far a request has got with the subscription it creates, or takes away.
CreationFits(c) ==
    request[c].op \in {"create", "subscribe"} =>
      /\ request[c].at \in Minting \cup {"subscription"} => request[c].position = 0
      /\ request[c].at \in Creating =>
        /\ request[c].principal \in 0 .. rowsMade
        /\ \A p \in principals : p.id = request[c].principal => p.kind = "user"
        /\ request[c].at = "action" =>
              /\ request[c].position >= 0
              /\ Whole(request[c].sub, request[c].principal, request[c].position)
        /\ request[c].at = "done" =>
              Whole(request[c].sub, request[c].principal, request[c].last + 1)

RemovalFits(c) == request[c].at = "subscriptions" => request[c].sub \in dropped

Fits(c) == StartFits(c) /\ DeleteFits(c) /\ CreationFits(c) /\ RemovalFits(c)

\* No two starts have the same reference, and every run has its principal.
Starts ==
    /\ \A c, d \in Caller :
          (request[c].op = "start" /\ request[d].op = "start" /\ c # d)
              => request[c].ref # request[d].ref
    /\ \A r \in runs : \E p \in principals \union removed :
           p.kind = "run" /\ p.ref = r.id

\* Subscriptions belong to users; what was reported is there.
Subscriptions ==
    /\ \A t \in subs : /\ t.id \in 0 .. rowsMade
                       /\ \E p \in principals : p.id = t.owner /\ p.kind = "user"
    /\ \A s, t \in subs : s.id = t.id => s = t
    /\ \A x \in actions : \E t \in subs : t.id = x.sub
    /\ \A s \in promised : s.last \in Int /\ Whole(s.id, s.owner, s.last + 1)

Inv ==
    /\ Types /\ Rows /\ Starts /\ SystemStays /\ Subscriptions
    /\ \A c \in Caller : Fits(c)

-----------------------------------------------------------------------------
LEMMA InvInit == DirectoryInit => Inv
<1> SUFFICES ASSUME DirectoryInit PROVE Inv
  OBVIOUS
<1>1. Idle \in Requests
  BY DEF Idle, Requests
<1>2. Types
  BY <1>1 DEF DirectoryInit, Types
<1>3. Rows
  BY DEF DirectoryInit, Rows, OneRowPerActor, IsSystem, Anchor
<1>4. Starts /\ SystemStays /\ Subscriptions
  BY DEF DirectoryInit, Starts, SystemStays, Subscriptions, Idle
<1>5. ASSUME NEW c \in Caller PROVE Fits(c)
  BY DEF DirectoryInit, Fits, StartFits, DeleteFits, CreationFits, RemovalFits,
     Creating, Idle
<1> QED
  BY <1>2, <1>3, <1>4, <1>5 DEF Inv

LEMMA InvImplies == Inv => DirectoryWhole
<1> SUFFICES ASSUME Inv PROVE DirectoryWhole
  OBVIOUS
<1>1. OneRowPerActor /\ SystemStays
  BY DEF Inv, Rows
<1>2. RunsKeepPrincipals
  BY DEF Inv, Starts, Fits, StartFits, OwnPrincipal, RunsKeepPrincipals, At
<1>3. SubscriptionsWhole
  <2>1. ASSUME NEW s \in promised
        PROVE  \/ s.id \in dropped \/ \E p \in removed : p.id = s.owner
               \/ /\ \E t \in subs : t.id = s.id
                  /\ \E p \in principals : p.id = s.owner
                  /\ \A i \in 0 .. s.last : [sub |-> s.id, position |-> i] \in actions
    <3>1. s.last \in Int /\ Whole(s.id, s.owner, s.last + 1)
      BY DEF Inv, Subscriptions
    <3>2. s.last + 1 - 1 = s.last
      BY <3>1
    <3> QED
      BY <3>1, <3>2 DEF Whole, Inv, Subscriptions
  <2> QED
    BY <2>1 DEF SubscriptionsWhole, Inv, Subscriptions
<1> QED
  BY <1>1, <1>2, <1>3 DEF DirectoryWhole

-----------------------------------------------------------------------------
(* What every step leaves standing                                         *)

\* Rows get fresh ids; a principal goes only by name or by age, and what was
\* whole stays so.
Advances ==
    /\ rowsMade' \in Nat /\ rowsMade' >= rowsMade
    /\ \A p \in principals' : p \in principals \/ p.id > rowsMade
    /\ \A p \in principals :
          \/ p \in principals' \cup removed'
          \/ /\ p.id \in old /\ p.kind = "run"
             /\ \A r \in runs : r.id # p.ref
    /\ removed \subseteq removed' /\ dropped \subseteq dropped'
    /\ \A id, owner, n : Whole(id, owner, n) => Whole(id, owner, n)'

\* Steps that delete nothing.
LEMMA GrowthAdvances ==
    ASSUME Inv, rowsMade' \in {rowsMade, rowsMade + 1},
           principals \subseteq principals',
           \A p \in principals' : p \in principals \/ p.id = rowsMade + 1,
           subs \subseteq subs', actions \subseteq actions',
           UNCHANGED <<removed, dropped>>
    PROVE  Advances
<1>1. rowsMade \in Nat
  BY DEF Inv, Types
<1>2. ASSUME NEW id, NEW owner, NEW n, Whole(id, owner, n)
      PROVE  Whole(id, owner, n)'
  BY <1>2 DEF Whole
<1>3. rowsMade' \in Nat /\ rowsMade' >= rowsMade /\ rowsMade + 1 > rowsMade
  BY <1>1
<1> QED
  BY <1>2, <1>3, <1>1 DEF Advances

LEMMA StepAdvances ==
    ASSUME Inv, [DirectoryNext]_dirVars
    PROVE  Advances
<1>0. rowsMade \in Nat /\ Rows /\ Subscriptions /\ \A c \in Caller : Fits(c)
  BY DEF Inv, Types
<1>1. ASSUME NEW c \in Caller,
             \/ CreatePrincipal(c) \/ Seed(c) \/ SubscribeCaller(c) \/ Unsubscribe(c)
             \/ DeletePrincipal(c) \/ MintConflicts(c) \/ MintSelects(c) \/ Return(c)
             \/ UnsubscribeGet(c) \/ InsertRun(c) \/ FirstEvent(c) \/ DeleteGet(c)
             \/ Die(c) \/ StartRun(c)
      PROVE  Advances
  <2>1. /\ rowsMade' \in {rowsMade, rowsMade + 1}
        /\ UNCHANGED <<principals, subs, actions, removed, dropped>>
    BY <1>1 DEF CreatePrincipal, Seed, SubscribeCaller, Unsubscribe, DeletePrincipal,
       Begin, MintConflicts, MintSelects, Return, UnsubscribeGet, InsertRun,
       FirstEvent, DeleteGet, Die, StartRun, tables, observed
  <2> QED
    BY <2>1, GrowthAdvances
<1>2. ASSUME NEW c \in Caller, MintInserts(c) PROVE Advances
  <2>1. /\ rowsMade' = rowsMade + 1
        /\ principals' = principals \union
              {[id |-> rowsMade + 1, kind |-> request[c].kind, ref |-> request[c].ref]}
        /\ UNCHANGED <<subs, actions, removed, dropped>>
    BY <1>2 DEF MintInserts, observed
  <2> QED
    BY <2>1, GrowthAdvances
<1>3. ASSUME NEW c \in Caller, CreateSubscription(c) \/ CreateAction(c) PROVE Advances
  <2>1. /\ rowsMade' \in {rowsMade, rowsMade + 1}
        /\ subs \subseteq subs' /\ actions \subseteq actions'
        /\ UNCHANGED <<principals, removed, dropped>>
    BY <1>3 DEF CreateSubscription, CreateAction, observed
  <2> QED
    BY <2>1, GrowthAdvances
<1>4. ASSUME NEW c \in Caller, DeleteActions(c) PROVE Advances
  <2>1. /\ UNCHANGED <<principals, rowsMade, subs, removed>>
        /\ actions' = {x \in actions : x.sub # request[c].sub}
        /\ dropped' = dropped \union {request[c].sub}
    BY <1>4 DEF DeleteActions
  <2>2. ASSUME NEW id, NEW owner, NEW n, Whole(id, owner, n)
        PROVE  Whole(id, owner, n)'
    BY <2>1, <2>2 DEF Whole
  <2> QED
    BY <1>0, <2>1, <2>2 DEF Advances
<1>5. ASSUME NEW c \in Caller, DeleteSubscription(c) PROVE Advances
  <2>1. /\ UNCHANGED <<principals, rowsMade, dropped, removed>>
        /\ actions' = {x \in actions : x.sub # request[c].sub}
        /\ subs' = {s \in subs : s.id # request[c].sub}
        /\ request[c].sub \in dropped
    BY <1>0, <1>5 DEF DeleteSubscription, Fits, RemovalFits, observed
  <2>2. ASSUME NEW id, NEW owner, NEW n, Whole(id, owner, n)
        PROVE  Whole(id, owner, n)'
    BY <2>1, <2>2 DEF Whole
  <2> QED
    BY <1>0, <2>1, <2>2 DEF Advances
<1>6. ASSUME NEW c \in Caller, Sweep(c) PROVE Advances
  <2> DEFINE gone == {p.id : p \in {p \in principals : /\ p.kind = "run"
                                                       /\ \A r \in runs : r.id # p.ref
                                                       /\ p.id \in old}}
  <2>1. /\ UNCHANGED <<rowsMade, dropped, removed>>
        /\ UNCHANGED <<principals, subs, actions>> \/ RemovePrincipals(gone)
    BY <1>6 DEF Sweep, observed
  <2>2. CASE UNCHANGED <<principals, subs, actions>>
    BY <2>1, <2>2, GrowthAdvances
  <2>3. CASE RemovePrincipals(gone)
    <3>1. ASSUME NEW p \in principals, p.id \in gone
          PROVE  p.id \in old /\ p.kind = "run" /\ \A r \in runs : r.id # p.ref
      BY <1>0, <3>1 DEF Rows
    <3>2. \A t \in subs : t.owner \notin gone
      BY <1>0, <3>1 DEF Subscriptions
    <3> HIDE DEF gone
    <3>3. subs' = subs
      BY <2>3, <3>2 DEF RemovePrincipals
    <3>4. actions' = actions
      BY <1>0, <2>3, <3>2 DEF RemovePrincipals, Subscriptions
    <3>5. ASSUME NEW id, NEW owner, NEW n, Whole(id, owner, n)
          PROVE  Whole(id, owner, n)'
      BY <2>1, <3>3, <3>4, <3>5 DEF Whole
    <3> QED
      BY <1>0, <2>1, <2>3, <3>1, <3>5 DEF Advances, RemovePrincipals
  <2> QED
    BY <2>1, <2>2, <2>3
<1>7. ASSUME NEW c \in Caller, Delete(c) PROVE Advances
  <2>1. UNCHANGED <<rowsMade, dropped>>
    BY <1>7 DEF Delete
  <2>2. CASE Restricted(request[c].principal)
    BY <1>7, <2>1, <2>2, GrowthAdvances DEF Delete
  <2>3. CASE ~Restricted(request[c].principal)
    <3>1. /\ RemovePrincipals({request[c].principal})
          /\ removed' = removed \union {p \in principals : p.id = request[c].principal}
      BY <1>7, <2>3 DEF Delete
    <3>2. ASSUME NEW id, NEW owner, NEW n, Whole(id, owner, n)
          PROVE  Whole(id, owner, n)'
      <4>1. CASE owner = request[c].principal
        BY <1>0, <2>1, <3>1, <3>2, <4>1 DEF Whole, Subscriptions
      <4>2. CASE owner # request[c].principal
        BY <2>1, <3>1, <3>2, <4>2 DEF Whole, RemovePrincipals
      <4> QED
        BY <4>1, <4>2
    <3> QED
      BY <1>0, <2>1, <3>1, <3>2 DEF Advances, RemovePrincipals
  <2> QED
    BY <2>2, <2>3
<1>8. CASE Age \/ UNCHANGED dirVars
  BY <1>8, GrowthAdvances DEF Age, dirVars, observed
<1> QED
  BY <1>1, <1>2, <1>3, <1>4, <1>5, <1>6, <1>7, <1>8 DEF DirectoryNext, DirectoryStep

\* What a step of another request, or of the clock, means to request d.
Apart(d) ==
    /\ request'[d] = request[d]
    /\ old' = old \/ ~At(d, "start", "run")
    /\ \A p \in principals' :
          \/ p \in principals
          \/ \E c \in Caller \ {d} : /\ p.ref = request[c].ref
                                     /\ p.kind = "run" => request[c].op = "start"

LEMMA StepApart ==
    ASSUME Inv, NEW c \in Caller, DirectoryStep(c), NEW d \in Caller, c # d
    PROVE  Apart(d)
<1>0. request \in [Caller -> Requests]
  BY DEF Inv, Types
<1>1. request'[d] = request[d]
  <2>1. CASE \/ CreatePrincipal(c) \/ Seed(c) \/ SubscribeCaller(c) \/ Unsubscribe(c)
             \/ DeletePrincipal(c) \/ StartRun(c)
    BY <1>0, <2>1 DEF CreatePrincipal, Seed, SubscribeCaller, Unsubscribe,
       DeletePrincipal, Begin, StartRun
  <2>2. CASE \/ MintInserts(c) \/ MintConflicts(c) \/ MintSelects(c) \/ Return(c)
    BY <1>0, <2>2 DEF MintInserts, MintConflicts, MintSelects, Return, Goto, End
  <2>3. CASE \/ CreateSubscription(c) \/ CreateAction(c) \/ UnsubscribeGet(c)
             \/ DeleteActions(c) \/ DeleteSubscription(c)
    BY <1>0, <2>3 DEF CreateSubscription, CreateAction, UnsubscribeGet,
       DeleteActions, DeleteSubscription, Goto, End
  <2>4. CASE \/ InsertRun(c) \/ Sweep(c) \/ FirstEvent(c) \/ DeleteGet(c) \/ Delete(c)
             \/ Die(c)
    BY <1>0, <2>4 DEF InsertRun, Sweep, FirstEvent, DeleteGet, Delete, Die, Goto, End
  <2> QED
    BY <2>1, <2>2, <2>3, <2>4 DEF DirectoryStep
<1>2. old' = old
  BY DEF DirectoryStep, CreatePrincipal, Seed, SubscribeCaller, Unsubscribe,
     DeletePrincipal, Begin, StartRun, MintInserts, MintConflicts, MintSelects, Return,
     CreateSubscription, CreateAction, UnsubscribeGet, DeleteActions,
     DeleteSubscription, InsertRun, Sweep, FirstEvent, DeleteGet, Delete, Die, tables
<1>3. CASE MintInserts(c)
  <2>1. principals' = principals \union
            {[id |-> rowsMade + 1, kind |-> request[c].kind, ref |-> request[c].ref]}
    BY <1>3 DEF MintInserts
  <2>2. request[c].kind = "run" => request[c].op = "start"
    <3>1. request[c] \in Requests /\ request[c].at = "mint"
      BY <1>0, <1>3 DEF MintInserts
    <3> QED
      BY <3>1 DEF Requests, Minting, Creating
  <2> QED
    BY <1>1, <1>2, <2>1, <2>2 DEF Apart
<1>4. CASE principals' \subseteq principals
  BY <1>1, <1>2, <1>4 DEF Apart
<1>5. MintInserts(c) \/ principals' \subseteq principals
  BY DEF DirectoryStep, CreatePrincipal, Seed, SubscribeCaller, Unsubscribe,
     DeletePrincipal, Begin, StartRun, MintConflicts, MintSelects, Return,
     CreateSubscription, CreateAction, UnsubscribeGet, DeleteActions,
     DeleteSubscription, InsertRun, Sweep, FirstEvent, DeleteGet, Delete, Die, tables,
     RemovePrincipals
<1> QED
  BY <1>3, <1>4, <1>5

LEMMA OthersFit ==
    ASSUME Inv, Advances, NEW d \in Caller, Apart(d)
    PROVE  Fits(d)'
<1>0. /\ rowsMade \in Nat /\ rowsMade' \in Nat /\ rowsMade' >= rowsMade /\ Fits(d)
      /\ request'[d] = request[d] /\ Starts /\ Rows
  BY DEF Inv, Types, Advances, Apart
<1>1. StartFits(d)'
  <2> SUFFICES ASSUME request[d].op = "start" PROVE StartFits(d)'
    BY <1>0 DEF StartFits
  <2>1. request[d].ref \in 1 .. rowsMade /\ request[d].at # "select"
    BY <1>0 DEF Fits, StartFits
  <2>2. ASSUME request[d].at = "mint", NEW p \in principals', p.kind = "run"
        PROVE  p.ref # request[d].ref
    <3>1. CASE p \in principals
      BY <1>0, <2>2, <3>1 DEF Fits, StartFits
    <3>2. CASE p \notin principals
      BY <1>0, <2>2, <3>2 DEF Apart, Starts
    <3> QED
      BY <3>1, <3>2
  <2>3. ASSUME request[d].at = "run" PROVE OwnPrincipal(d)'
    <3>1. PICK p \in principals \union removed :
             /\ p.id = request[d].principal /\ p.kind = "run" /\ p.ref = request[d].ref
             /\ p \in principals => p.id \notin old
      BY <1>0, <2>3 DEF Fits, StartFits, OwnPrincipal
    <3>2. old' = old
      BY <2>3 DEF Apart, At
    <3>3. p \in principals' \union removed'
      BY <3>1 DEF Advances
    <3>4. CASE p \in principals
      BY <1>0, <3>1, <3>2, <3>3, <3>4 DEF OwnPrincipal
    <3>5. CASE p \in removed
      <4>1. p.id \in 0 .. rowsMade
        BY <1>0, <3>5 DEF Rows
      <4>2. p \in principals' => p \in principals
        BY <1>0, <4>1 DEF Advances
      <4> QED
        BY <1>0, <3>1, <3>2, <3>3, <4>2 DEF OwnPrincipal
    <3> QED
      BY <3>1, <3>4, <3>5
  <2> QED
    BY <1>0, <2>1, <2>2, <2>3 DEF StartFits
<1>2. DeleteFits(d)'
  BY <1>0 DEF Fits, DeleteFits, Advances, IsSystem
<1>3. CreationFits(d)'
  BY <1>0 DEF Fits, CreationFits, Advances
<1>4. RemovalFits(d)'
  BY <1>0 DEF Fits, RemovalFits, Advances
<1> QED
  BY <1>1, <1>2, <1>3, <1>4 DEF Fits

-----------------------------------------------------------------------------
(* The request that takes the step                                         *)

\* What becomes of the request itself; only StartRun draws a reference.
OwnFits(c) ==
    /\ request'[c] \in Requests
    /\ Fits(c)'
    /\ request'[c].op = "start" =>
          \/ request[c].op = "start" /\ request'[c].ref = request[c].ref
          \/ request'[c].ref = rowsMade + 1

LEMMA IdleFits ==
    ASSUME NEW c \in Caller, request'[c] = Idle
    PROVE  OwnFits(c)
<1>1. Idle \in Requests /\ Idle.op = "none" /\ Idle.at = "idle"
  BY DEF Idle, Requests
<1> QED
  BY <1>1 DEF OwnFits, Fits, StartFits, DeleteFits, CreationFits, RemovalFits

LEMMA EndFits ==
    ASSUME Inv, NEW c \in Caller, End(c)
    PROVE  OwnFits(c)
  BY IdleFits DEF End, Inv, Types

LEMMA BeginFits ==
    ASSUME Inv, NEW c \in Caller,
           \/ CreatePrincipal(c) \/ Seed(c) \/ StartRun(c) \/ SubscribeCaller(c)
           \/ Unsubscribe(c) \/ DeletePrincipal(c)
    PROVE  OwnFits(c)
<1>0. /\ request \in [Caller -> Requests] /\ rowsMade \in Nat /\ Rows /\ Subscriptions
  BY DEF Inv, Types
<1> USE DEF OwnFits, Fits, StartFits, DeleteFits, CreationFits, RemovalFits, Requests,
            Minting, Creating
<1>1. CASE CreatePrincipal(c)
  <2>1. PICK ref \in Ref : request'[c] =
           [op |-> "create", at |-> "mint", kind |-> "user", ref |-> ref,
            principal |-> -1, sub |-> -1, position |-> 0, last |-> 0]
    BY <1>0, <1>1 DEF CreatePrincipal, Begin
  <2> QED
    BY <2>1
<1>2. CASE Seed(c)
  <2>1. request'[c] = [op |-> "seed", at |-> "mint", kind |-> "system", ref |-> "zero",
                       principal |-> -1]
    BY <1>0, <1>2 DEF Seed, Begin
  <2> QED
    BY <2>1
<1>3. CASE StartRun(c)
  <2>1. /\ request'[c] = [op |-> "start", at |-> "mint", kind |-> "run",
                          ref |-> rowsMade + 1, principal |-> -1]
        /\ rowsMade' = rowsMade + 1 /\ UNCHANGED principals
    BY <1>0, <1>3 DEF StartRun, tables
  <2>2. \A p \in principals : p.kind = "run" => p.ref # rowsMade + 1
    BY <1>0 DEF Rows
  <2> QED
    BY <1>0, <2>1, <2>2
<1>4. CASE SubscribeCaller(c)
  <2>1. PICK p \in principals :
           /\ p.kind = "user" /\ UNCHANGED <<principals, rowsMade>>
           /\ request'[c] = [op |-> "subscribe", at |-> "subscription",
                             principal |-> p.id, sub |-> -1, position |-> 0, last |-> 1]
    BY <1>0, <1>4 DEF SubscribeCaller, Begin, tables
  <2>2. p.id \in 0 .. rowsMade /\ \A q \in principals : q.id = p.id => q = p
    BY <1>0 DEF Rows
  <2> QED
    BY <1>0, <2>1, <2>2
<1>5. CASE Unsubscribe(c)
  <2>1. PICK s \in subs :
           request'[c] = [op |-> "unsubscribe", at |-> "get", sub |-> s.id]
    BY <1>0, <1>5 DEF Unsubscribe, Begin
  <2>2. s.id \in 0 .. rowsMade
    BY <1>0 DEF Subscriptions
  <2> QED
    BY <1>0, <2>1, <2>2
<1>6. CASE DeletePrincipal(c)
  <2>1. PICK p \in principals :
           /\ request'[c] = [op |-> "delete", at |-> "get", principal |-> p.id]
           /\ UNCHANGED rowsMade
    BY <1>0, <1>6 DEF DeletePrincipal, Begin
  <2>2. p.id \in 0 .. rowsMade
    BY <1>0 DEF Rows
  <2> QED
    BY <1>0, <2>1, <2>2
<1> QED
  BY <1>1, <1>2, <1>3, <1>4, <1>5, <1>6

LEMMA MintFits ==
    ASSUME Inv, NEW c \in Caller, MintInserts(c) \/ MintConflicts(c) \/ MintSelects(c)
    PROVE  OwnFits(c)
<1>0. /\ request \in [Caller -> Requests] /\ rowsMade \in Nat /\ Rows /\ Fits(c)
      /\ request[c].at \in Minting
  BY DEF Inv, Types, MintInserts, MintConflicts, MintSelects, Minting
<1>1. \/ request[c] \in [op : {"create"}, at : Minting \cup Creating, kind : {"user"},
                         ref : Ref, principal : Int, sub : Int, position : Int,
                         last : Int]
      \/ request[c] \in [op : {"seed"}, at : Minting \cup {"done"}, kind : {"system"},
                         ref : {"zero"}, principal : Int]
      \/ request[c] \in [op : {"start"}, at : Minting \cup {"run", "sweep", "event"},
                         kind : {"run"}, ref : Int, principal : Int]
  BY <1>0 DEF Requests, Minting, Creating
<1>2. request[c].op = "create" => request[c].position = 0
  BY <1>0 DEF Fits, CreationFits
<1>3. request[c].op = "start" =>
         /\ request[c].ref \in 1 .. rowsMade /\ request[c].at = "mint"
         /\ \A p \in principals : p.kind = "run" => p.ref # request[c].ref
  BY <1>0 DEF Fits, StartFits, Minting
<1>m. ASSUME NEW id \in Int,
              request'[c] = [request[c] EXCEPT !.at = MintTo(c), !.principal = id]
      PROVE  /\ request'[c] \in Requests /\ request'[c].op = request[c].op
             /\ request'[c].principal = id /\ request'[c].ref = request[c].ref
             /\ request'[c].op = "create" =>
                   /\ request'[c].at = "subscription" /\ request[c].kind = "user"
                   /\ request'[c].position = request[c].position
             /\ request'[c].op = "seed" => request'[c].at = "done"
             /\ request'[c].op = "start" =>
                   request'[c].at = "run" /\ request[c].kind = "run"
             /\ request[c].op \in {"create", "seed", "start"}
  <2>1. /\ request[c].op = "create" => MintTo(c) = "subscription"
        /\ request[c].op = "seed" => MintTo(c) = "done"
        /\ request[c].op = "start" => MintTo(c) = "run"
    BY Zenon DEF MintTo
  <2> HIDE DEF MintTo
  <2>2. CASE request[c].op = "create"
    BY <1>1, <1>m, <2>1, <2>2 DEF Requests, Minting, Creating
  <2>3. CASE request[c].op = "seed"
    BY <1>1, <1>m, <2>1, <2>3 DEF Requests, Minting, Creating
  <2>4. CASE request[c].op = "start"
    BY <1>1, <1>m, <2>1, <2>4 DEF Requests, Minting, Creating
  <2> QED
    BY <1>1, <2>2, <2>3, <2>4
<1>4. CASE MintInserts(c)
  <2>1. /\ principals' = principals \union
               {[id |-> rowsMade + 1, kind |-> request[c].kind, ref |-> request[c].ref]}
        /\ rowsMade' = rowsMade + 1 /\ UNCHANGED <<old, removed>>
        /\ request'[c] = [request[c] EXCEPT !.at = MintTo(c), !.principal = rowsMade + 1]
    BY <1>0, <1>4 DEF MintInserts, observed
  <2>2. \A p \in principals : p.id # rowsMade + 1
    BY <1>0 DEF Rows
  <2>3. rowsMade + 1 \notin old
    BY <1>0 DEF Rows
  <2>r. /\ request'[c] \in Requests /\ request'[c].op = request[c].op
        /\ request'[c].principal = rowsMade + 1 /\ request'[c].ref = request[c].ref
        /\ request'[c].op = "create" =>
              /\ request'[c].at = "subscription" /\ request[c].kind = "user"
              /\ request'[c].position = request[c].position
        /\ request'[c].op = "seed" => request'[c].at = "done"
        /\ request'[c].op = "start" =>
              request'[c].at = "run" /\ request[c].kind = "run"
        /\ request[c].op \in {"create", "seed", "start"}
    <3>1. rowsMade + 1 \in Int
      BY <1>0
    <3> QED
      BY <1>m, <2>1, <3>1
  <2>4. request'[c].op = "start" => OwnPrincipal(c)'
    <3>1. PICK p \in principals' : /\ p.id = rowsMade + 1 /\ p.kind = request[c].kind
                                   /\ p.ref = request[c].ref
      <4> DEFINE row == [id |-> rowsMade + 1, kind |-> request[c].kind,
                         ref |-> request[c].ref]
      <4>1. row \in principals'
        BY <2>1
      <4>2. row.id = rowsMade + 1 /\ row.kind = request[c].kind /\ row.ref = request[c].ref
        OBVIOUS
      <4> HIDE DEF row
      <4> QED
        BY <4>1, <4>2
    <3> QED
      BY <2>r, <2>1, <2>3, <3>1 DEF OwnPrincipal
  <2>5. request'[c].op = "create" =>
           \A p \in principals' : p.id = request'[c].principal => p.kind = "user"
    BY <1>0, <2>r, <2>1, <2>2
  <2> QED
    BY <1>0, <1>2, <1>3, <2>r, <2>1, <2>4, <2>5 DEF OwnFits, Fits, StartFits,
       DeleteFits, CreationFits, RemovalFits, Minting, Creating
<1>5. CASE MintConflicts(c)
  <2>1. request'[c] = [request[c] EXCEPT !.at = "select"]
    BY <1>0, <1>5 DEF MintConflicts, Goto
  <2>2. request[c].op # "start"
    BY <1>0, <1>1, <1>3, <1>5 DEF MintConflicts, WithRef
  <2> QED
    BY <1>0, <1>1, <1>2, <2>1, <2>2 DEF OwnFits, Fits, StartFits, DeleteFits,
       CreationFits, RemovalFits, Requests, Minting, Creating
<1>6. CASE MintSelects(c)
  <2>1. request[c].op # "start"
    BY <1>3, <1>6 DEF MintSelects
  <2>2. CASE End(c)
    BY <2>2, EndFits
  <2>3. CASE ~End(c)
    <3>1. PICK p \in principals :
             /\ p.kind = request[c].kind
             /\ request'[c] = [request[c] EXCEPT !.at = MintTo(c), !.principal = p.id]
             /\ UNCHANGED <<principals, rowsMade>>
      BY <1>0, <1>6, <2>3 DEF MintSelects, WithRef, tables
    <3>2. p.id \in 0 .. rowsMade /\ \A q \in principals : q.id = p.id => q = p
      BY <1>0 DEF Rows
    <3>r. /\ request'[c] \in Requests /\ request'[c].op = request[c].op
          /\ request'[c].principal = p.id /\ request'[c].ref = request[c].ref
          /\ request'[c].op = "create" =>
                /\ request'[c].at = "subscription" /\ request[c].kind = "user"
                /\ request'[c].position = request[c].position
          /\ request'[c].op = "seed" => request'[c].at = "done"
          /\ request'[c].op = "start" =>
                request'[c].at = "run" /\ request[c].kind = "run"
          /\ request[c].op \in {"create", "seed", "start"}
      <4>1. p.id \in Int
        BY <1>0, <3>2
      <4> QED
        BY <1>m, <3>1, <4>1
    <3> QED
      BY <1>0, <1>2, <2>1, <3>r, <3>1, <3>2 DEF OwnFits, Fits, StartFits,
         DeleteFits, CreationFits, RemovalFits, Minting, Creating
  <2> QED
    BY <2>2, <2>3
<1> QED
  BY <1>4, <1>5, <1>6

LEMMA CreateFits ==
    ASSUME Inv, Advances, NEW c \in Caller, CreateSubscription(c) \/ CreateAction(c)
    PROVE  OwnFits(c)
<1>0. /\ request \in [Caller -> Requests] /\ rowsMade \in Nat /\ Rows /\ Fits(c)
      /\ request[c].at \in {"subscription", "action"}
  BY DEF Inv, Types, CreateSubscription, CreateAction
<1>1. \/ request[c] \in [op : {"create"}, at : Minting \cup Creating, kind : {"user"},
                         ref : Ref, principal : Int, sub : Int, position : Int,
                         last : Int]
      \/ request[c] \in [op : {"subscribe"}, at : Creating, principal : Int, sub : Int,
                         position : Int, last : Int]
  BY <1>0 DEF Requests, Minting, Creating
<1>2. /\ request[c].principal \in 0 .. rowsMade
      /\ \A p \in principals : p.id = request[c].principal => p.kind = "user"
      /\ request[c].at = "subscription" => request[c].position = 0
      /\ request[c].at = "action" =>
            /\ request[c].position >= 0
            /\ Whole(request[c].sub, request[c].principal, request[c].position)
      /\ request[c].position \in Int /\ request[c].last \in Int
  BY <1>0, <1>1 DEF Fits, CreationFits, Creating
<1>3. CASE End(c)
  BY <1>3, EndFits
<1>4. ASSUME CreateSubscription(c), ~End(c) PROVE OwnFits(c)
  <2>1. /\ rowsMade' = rowsMade + 1 /\ UNCHANGED <<principals, actions, removed, dropped>>
        /\ subs' = subs \union {[id |-> rowsMade + 1, owner |-> request[c].principal]}
        /\ request'[c] = [request[c] EXCEPT !.at = "action", !.sub = rowsMade + 1]
        /\ request[c].at = "subscription"
    BY <1>0, <1>4 DEF CreateSubscription, observed
  <2>2. /\ request'[c] \in Requests /\ request'[c].op = request[c].op
        /\ request'[c].at = "action" /\ request'[c].sub = rowsMade + 1
        /\ request'[c].position = request[c].position
        /\ request'[c].principal = request[c].principal
        /\ request[c].op \in {"create", "subscribe"}
    <3>1. PICK id \in Int : id = rowsMade + 1
      BY <1>0
    <3>2. request'[c] = [request[c] EXCEPT !.at = "action", !.sub = id]
      BY <2>1, <3>1
    <3>3. CASE request[c].op = "create"
      BY <1>1, <3>1, <3>2, <3>3 DEF Requests, Creating
    <3>4. CASE request[c].op = "subscribe"
      BY <1>1, <3>1, <3>2, <3>4 DEF Requests, Creating
    <3> QED
      BY <1>1, <3>3, <3>4
  <2>3. Whole(request[c].sub, request[c].principal, request[c].position)'
    <3>1. \E t \in subs' : t.id = rowsMade + 1 /\ t.owner = request[c].principal
      <4> DEFINE row == [id |-> rowsMade + 1, owner |-> request[c].principal]
      <4>1. row \in subs' /\ row.id = rowsMade + 1 /\ row.owner = request[c].principal
        BY <2>1
      <4> HIDE DEF row
      <4> QED
        BY <4>1
    <3>2. \A i \in 0 .. (request'[c].position - 1) : FALSE
      BY <1>2, <2>1, <2>2
    <3> QED
      BY <2>2, <3>1, <3>2 DEF Whole
  <2> QED
    BY <1>0, <1>2, <2>1, <2>2, <2>3 DEF OwnFits, Fits, StartFits, DeleteFits,
       CreationFits, RemovalFits, Minting, Creating
<1>5. ASSUME CreateAction(c), ~End(c) PROVE OwnFits(c)
  <2> PICK s, o, n : s = request[c].sub /\ o = request[c].principal
                     /\ n = request[c].position
    OBVIOUS
  <2>1. /\ actions' = actions \union {[sub |-> s, position |-> n]}
        /\ UNCHANGED <<principals, rowsMade, subs, removed, dropped>>
        /\ request[c].at = "action"
        /\ \/ n = request[c].last /\ request'[c] = [request[c] EXCEPT !.at = "done"]
           \/ request'[c] = [request[c] EXCEPT !.position = @ + 1]
    BY <1>0, <1>5 DEF CreateAction, observed
  <2>2. /\ request'[c] \in Requests /\ request'[c].op = request[c].op
        /\ request'[c].sub = s /\ request'[c].principal = o
        /\ \/ n = request[c].last /\ request'[c].at = "done" /\ request'[c].last = n
           \/ request'[c].at = "action" /\ request'[c].position = n + 1
        /\ request[c].op \in {"create", "subscribe"}
    <3>1. CASE request[c].op = "create"
      BY <1>0, <1>1, <1>2, <2>1, <3>1 DEF Requests, Creating
    <3>2. CASE request[c].op = "subscribe"
      BY <1>0, <1>1, <1>2, <2>1, <3>2 DEF Requests, Creating
    <3> QED
      BY <1>1, <3>1, <3>2
  <2>3. Whole(s, o, n + 1)'
    <3>1. Whole(s, o, n) /\ n \in Int /\ n >= 0
      BY <1>2, <2>1
    <3>2. \A i \in 0 .. (n + 1 - 1) : i = n \/ i \in 0 .. n - 1
      BY <3>1
    <3> QED
      BY <2>1, <3>1, <3>2 DEF Whole
  <2>4. n \in Int /\ n + 1 >= 0
    BY <1>2, <2>1
  <2>5. request'[c].at = "action" => Whole(request[c].sub, request[c].principal, request[c].position)'
    BY <2>2, <2>3 DEF Whole
  <2>6. request'[c].at = "done" => Whole(request[c].sub, request[c].principal, request[c].last + 1)'
    BY <2>2, <2>3 DEF Whole
  <2> QED
    BY <1>0, <1>2, <2>1, <2>2, <2>4, <2>5, <2>6 DEF OwnFits, Fits, StartFits,
       DeleteFits, CreationFits, RemovalFits, Minting, Creating
<1> QED
  BY <1>3, <1>4, <1>5

LEMMA OtherFits ==
    ASSUME Inv, Advances, NEW c \in Caller,
           \/ Return(c) \/ UnsubscribeGet(c) \/ DeleteActions(c)
           \/ DeleteSubscription(c) \/ InsertRun(c) \/ Sweep(c) \/ FirstEvent(c)
           \/ DeleteGet(c) \/ Delete(c) \/ Die(c)
    PROVE  OwnFits(c)
<1>0. /\ request \in [Caller -> Requests] /\ request[c] \in Requests
      /\ rowsMade \in Nat /\ Fits(c)
  BY DEF Inv, Types
<1>1. CASE End(c)
  BY <1>1, EndFits
<1>2. CASE UnsubscribeGet(c) /\ ~End(c)
  <2>1. request'[c] = [request[c] EXCEPT !.at = "actions"] /\ request[c].op = "unsubscribe"
    BY <1>0, <1>2 DEF UnsubscribeGet, Goto, At
  <2> QED
    BY <1>0, <2>1 DEF Requests, OwnFits, Fits, StartFits, DeleteFits, CreationFits,
       RemovalFits
<1>3. CASE DeleteActions(c)
  <2>1. /\ request'[c] = [request[c] EXCEPT !.at = "subscriptions"]
        /\ request[c].at = "actions" /\ request[c].sub \in dropped'
    BY <1>0, <1>3 DEF DeleteActions, Goto
  <2>2. request[c] \in [op : {"unsubscribe"}, at : {"get", "actions", "subscriptions"},
                        sub : Int]
    BY <1>0, <2>1 DEF Requests, Minting, Creating
  <2>3. /\ request'[c] \in Requests /\ request'[c].op = "unsubscribe"
        /\ request'[c].sub = request[c].sub
    BY <2>1, <2>2 DEF Requests
  <2> QED
    BY <2>1, <2>3 DEF OwnFits, Fits, StartFits, DeleteFits, CreationFits, RemovalFits
<1>4. CASE (InsertRun(c) \/ Sweep(c)) /\ ~End(c)
  <2>1. /\ \E l \in {"sweep", "event"} : request'[c] = [request[c] EXCEPT !.at = l]
        /\ request[c].op = "start" /\ UNCHANGED rowsMade
    BY <1>0, <1>4 DEF InsertRun, Sweep, Goto, At
  <2>2. request[c] \in [op : {"start"}, at : Minting \cup {"run", "sweep", "event"},
                        kind : {"run"}, ref : Int, principal : Int]
    BY <1>0, <2>1 DEF Requests
  <2>3. /\ request'[c] \in Requests /\ request'[c].op = "start"
        /\ request'[c].ref = request[c].ref /\ request'[c].at \in {"sweep", "event"}
    BY <2>1, <2>2 DEF Requests
  <2> QED
    BY <1>0, <2>1, <2>3 DEF OwnFits, Fits, StartFits, DeleteFits, CreationFits,
       RemovalFits
<1>5. CASE DeleteGet(c) /\ ~End(c)
  <2>1. /\ request'[c] = [request[c] EXCEPT !.at = "delete"]
        /\ request[c].op = "delete" /\ UNCHANGED <<principals, rowsMade>>
        /\ \A p \in principals : p.id = request[c].principal => ~IsSystem(p)
    BY <1>0, <1>5 DEF DeleteGet, Goto, At, tables
  <2>2. request[c] \in [op : {"delete"}, at : {"get", "delete"}, principal : Int]
    BY <1>0, <2>1 DEF Requests
  <2>3. /\ request'[c] \in Requests /\ request'[c].op = "delete"
        /\ request'[c].principal = request[c].principal /\ request'[c].at = "delete"
    BY <2>1, <2>2 DEF Requests
  <2> QED
    BY <1>0, <2>1, <2>3 DEF OwnFits, Fits, StartFits, DeleteFits, CreationFits,
       RemovalFits, IsSystem
<1> QED
  BY <1>1, <1>2, <1>3, <1>4, <1>5 DEF Return, UnsubscribeGet, DeleteSubscription,
     FirstEvent, DeleteGet, Delete, Die

-----------------------------------------------------------------------------
(* The tables                                                              *)

\* Where rows come from and where they go to.
LEMMA TableSteps ==
    ASSUME Inv, [DirectoryNext]_dirVars
    PROVE  /\ principals' \subseteq principals \/ \E c \in Caller : MintInserts(c)
           /\ old' = old \/ Age
           /\ removed' = removed \/ \E c \in Caller : Delete(c)
           /\ runs' = runs \/ \E c \in Caller : InsertRun(c)
           /\ promised' = promised \/ \E c \in Caller : Return(c)
  BY ZenonT(60) DEF DirectoryNext, DirectoryStep, CreatePrincipal, Seed, SubscribeCaller,
     Unsubscribe, DeletePrincipal, Begin, StartRun, MintConflicts, MintSelects, Return,
     CreateSubscription, CreateAction, UnsubscribeGet, DeleteActions, MintInserts,
     DeleteSubscription, InsertRun, Sweep, FirstEvent, DeleteGet, Die, Delete, tables,
     observed, dirVars, Age, RemovePrincipals

LEMMA RowsNext ==
    ASSUME Inv, Advances, [DirectoryNext]_dirVars
    PROVE  Rows' /\ SystemStays'
<1>0. /\ rowsMade \in Nat /\ rowsMade' \in Nat /\ rowsMade' >= rowsMade /\ Rows
      /\ SystemStays /\ \A c \in Caller : Fits(c) /\ request[c] \in Requests
  BY DEF Inv, Types, Advances
<1>1. CASE principals' \subseteq principals
  <2>1. old' \subseteq 0 .. rowsMade'
    <3>1. CASE old' = old
      BY <1>0, <3>1 DEF Rows
    <3>2. CASE Age
      <4>1. old' = {p.id : p \in principals}
        BY <3>2 DEF Age
      <4>2. \A p \in principals : p.id \in 0 .. rowsMade'
        BY <1>0 DEF Rows
      <4> QED
        BY <4>1, <4>2
    <3> QED
      BY <3>1, <3>2, TableSteps
  <2>2. ASSUME NEW p \in removed' PROVE p.id \in 0 .. rowsMade' /\ ~IsSystem(p)
    <3>1. CASE p \in removed
      BY <1>0, <3>1 DEF Rows, SystemStays
    <3>2. CASE p \notin removed
      <4>1. PICK c \in Caller : Delete(c)
        BY <2>2, <3>2, TableSteps
      <4>2. /\ p \in principals /\ p.id = request[c].principal
            /\ request[c].op = "delete" /\ request[c].at = "delete"
        BY <2>2, <3>2, <4>1 DEF Delete, At
      <4> QED
        BY <1>0, <4>2 DEF Rows, Fits, DeleteFits
    <3> QED
      BY <3>1, <3>2
  <2> QED
    BY <1>0, <1>1, <2>1, <2>2 DEF Rows, OneRowPerActor, SystemStays
<1>2. ASSUME NEW c \in Caller, MintInserts(c) PROVE Rows' /\ SystemStays'
  <2> DEFINE row == [id |-> rowsMade + 1, kind |-> request[c].kind,
                     ref |-> request[c].ref]
  <2>1. /\ principals' = principals \union {row} /\ rowsMade' = rowsMade + 1
        /\ UNCHANGED <<old, removed>> /\ request[c].at = "mint"
        /\ \A p \in principals : ~(p.kind = row.kind /\ p.ref = row.ref)
    BY <1>2 DEF MintInserts, WithRef, observed
  <2>2. row.id = rowsMade + 1 /\ row.kind = request[c].kind /\ row.ref = request[c].ref
    OBVIOUS
  <2>3. /\ request[c].kind = "system" => request[c].ref = "zero"
        /\ request[c].kind = "run" => request[c].op = "start"
    BY <1>0, <2>1 DEF Requests, Minting, Creating
  <2>4. request[c].kind = "run" => request[c].ref \in 1 .. rowsMade
    BY <1>0, <2>3 DEF Fits, StartFits
  <2> HIDE DEF row
  <2>5. \A p \in principals : p.id # row.id
    BY <1>0, <2>2 DEF Rows
  <2>6. \A p \in principals : p.kind = row.kind => p.ref # row.ref /\ ~IsSystem(p)
    BY <1>0, <2>1, <2>2, <2>3 DEF Rows, IsSystem
  <2>7. OneRowPerActor'
    BY <1>0, <2>1, <2>6 DEF Rows, OneRowPerActor, IsSystem
  <2>8. /\ \A p \in principals' : /\ p.id \in 0 .. rowsMade'
                                  /\ p.kind = "system" => p.ref = "zero"
                                  /\ p.kind = "run" => p.ref \in 1 .. rowsMade'
        /\ \A p \in removed : p.id \in 0 .. rowsMade'
        /\ old \subseteq 0 .. rowsMade'
    BY <1>0, <2>1, <2>2, <2>3, <2>4 DEF Rows
  <2>9. \A p, q \in principals' : p.id = q.id => p = q
    BY <1>0, <2>1, <2>5 DEF Rows
  <2> QED
    BY <1>0, <2>1, <2>7, <2>8, <2>9 DEF Rows, SystemStays
<1> QED
  BY <1>1, <1>2, TableSteps

LEMMA StartsNext ==
    ASSUME Inv, Advances, [DirectoryNext]_dirVars,
           \A d \in Caller : \/ request'[d] = request[d]
                             \/ /\ OwnFits(d)
                                /\ \A e \in Caller \ {d} : request'[e] = request[e]
    PROVE  Starts'
<1>0. /\ rowsMade \in Nat /\ Starts /\ \A c \in Caller : Fits(c)
  BY DEF Inv, Types
<1>1. ASSUME NEW c \in Caller, NEW d \in Caller, c # d,
             request'[c].op = "start", request'[d].op = "start"
      PROVE  request'[c].ref # request'[d].ref
  <2>1. \A e \in Caller : request[e].op = "start" => request[e].ref \in 1 .. rowsMade
    BY <1>0 DEF Fits, StartFits
  <2>2. ASSUME NEW e \in Caller, NEW f \in Caller, e # f, request'[f] = request[f],
               request'[e].op = "start", request'[f].op = "start"
        PROVE  request'[e].ref # request'[f].ref
    <3>1. CASE request'[e] = request[e]
      BY <1>0, <2>2, <3>1 DEF Starts
    <3>2. CASE OwnFits(e)
      BY <1>0, <2>1, <2>2, <3>2 DEF Starts, OwnFits
    <3> QED
      BY <3>1, <3>2
  <2> QED
    BY <1>1, <2>2
<1>2. ASSUME NEW r \in runs'
      PROVE  \E p \in principals' \union removed' : p.kind = "run" /\ p.ref = r.id
  <2>1. CASE r \in runs
    <3>1. PICK p \in principals \union removed : p.kind = "run" /\ p.ref = r.id
      BY <1>0, <2>1 DEF Starts
    <3> QED
      BY <2>1, <3>1 DEF Advances
  <2>2. CASE r \notin runs
    <3>1. PICK c \in Caller : InsertRun(c)
      BY <1>2, <2>2, TableSteps
    <3>2. /\ r = [id |-> request[c].ref, by |-> Anchor.id]
          /\ request[c].op = "start" /\ request[c].at = "run"
          /\ UNCHANGED <<principals, removed>>
      BY <1>2, <2>2, <3>1 DEF InsertRun, At, observed
    <3>3. r.id = request[c].ref
      BY <3>2
    <3> QED
      BY <1>0, <3>2, <3>3 DEF Fits, StartFits, OwnPrincipal
  <2> QED
    BY <2>1, <2>2
<1> QED
  BY <1>1, <1>2 DEF Starts

LEMMA SubscriptionsNext ==
    ASSUME Inv, Advances, [DirectoryNext]_dirVars
    PROVE  Subscriptions'
<1>0. /\ rowsMade \in Nat /\ rowsMade' \in Nat /\ rowsMade' >= rowsMade
      /\ Subscriptions /\ Rows
      /\ \A c \in Caller : Fits(c) /\ request[c] \in Requests
  BY DEF Inv, Types, Advances
<1>1. ASSUME NEW s \in promised'
      PROVE  s.last \in Int /\ Whole(s.id, s.owner, s.last + 1)'
  <2>1. CASE s \in promised
    <3>1. s.last \in Int /\ Whole(s.id, s.owner, s.last + 1)
      BY <1>0, <2>1 DEF Subscriptions
    <3> QED
      BY <3>1 DEF Advances
  <2>2. CASE s \notin promised
    <3>1. PICK c \in Caller : Return(c)
      BY <1>1, <2>2, TableSteps
    <3>2. /\ request[c].at = "done" /\ request[c].op \in {"create", "subscribe"}
          /\ s = [id |-> request[c].sub, owner |-> request[c].principal,
                  last |-> request[c].last]
          /\ UNCHANGED <<subs, actions, removed, dropped>>
      BY <1>1, <2>2, <3>1 DEF Return, tables
    <3>3. request[c].last \in Int
      BY <1>0, <3>2 DEF Requests
    <3>4. Whole(request[c].sub, request[c].principal, request[c].last + 1)
      BY <1>0, <3>2 DEF Fits, CreationFits, Creating
    <3>5. /\ s.id = request[c].sub /\ s.owner = request[c].principal
          /\ s.last = request[c].last
      BY <3>2
    <3> QED
      BY <3>2, <3>3, <3>4, <3>5 DEF Whole
  <2> QED
    BY <2>1, <2>2
<1> DEFINE Tables == /\ \A t \in subs' :
                          /\ t.id \in 0 .. rowsMade'
                          /\ \E p \in principals' : p.id = t.owner /\ p.kind = "user"
                     /\ \A s, t \in subs' : s.id = t.id => s = t
                     /\ \A x \in actions' : \E t \in subs' : t.id = x.sub
<1>2. ASSUME UNCHANGED <<subs, actions>> /\ principals \subseteq principals'
      PROVE  Tables
  BY <1>0, <1>2 DEF Subscriptions
<1>3. ASSUME NEW c \in Caller, CreateSubscription(c) PROVE Tables
  <2>1. CASE UNCHANGED subs
    BY <1>0, <1>3, <2>1 DEF CreateSubscription, Subscriptions
  <2>2. CASE ~UNCHANGED subs
    <3> DEFINE row == [id |-> rowsMade + 1, owner |-> request[c].principal]
    <3>1. /\ rowsMade' = rowsMade + 1 /\ subs' = subs \union {row}
          /\ UNCHANGED <<principals, actions>>
          /\ \E p \in principals : p.id = request[c].principal
          /\ request[c].at = "subscription"
      BY <1>3, <2>2 DEF CreateSubscription
    <3>2. row.id = rowsMade + 1 /\ row.owner = request[c].principal
      OBVIOUS
    <3>3. request[c].op \in {"create", "subscribe"}
      BY <1>0, <3>1 DEF Requests, Minting, Creating
    <3>4. \E p \in principals : p.id = request[c].principal /\ p.kind = "user"
      BY <1>0, <3>1, <3>3 DEF Fits, CreationFits, Creating
    <3> HIDE DEF row
    <3>5. \A t \in subs : t.id # row.id
      BY <1>0, <3>2 DEF Subscriptions
    <3> QED
      BY <1>0, <3>1, <3>2, <3>4, <3>5 DEF Subscriptions
  <2> QED
    BY <2>1, <2>2
<1>4. ASSUME NEW c \in Caller, CreateAction(c) PROVE Tables
  <2>1. /\ UNCHANGED <<principals, subs, rowsMade>>
        /\ \/ UNCHANGED actions
           \/ /\ \E s \in subs : s.id = request[c].sub
              /\ actions' = actions \union
                    {[sub |-> request[c].sub, position |-> request[c].position]}
    BY <1>4 DEF CreateAction
  <2> QED
    BY <1>0, <2>1 DEF Subscriptions
<1>5. ASSUME NEW c \in Caller, DeleteActions(c) PROVE Tables
  BY <1>0, <1>5 DEF DeleteActions, Subscriptions
<1>6. ASSUME NEW c \in Caller, DeleteSubscription(c) PROVE Tables
  BY <1>0, <1>6 DEF DeleteSubscription, Subscriptions
<1>7. ASSUME NEW gone, RemovePrincipals(gone) PROVE Tables
  BY <1>0, <1>7 DEF RemovePrincipals, Subscriptions
<1>8. \/ UNCHANGED <<subs, actions>> /\ principals \subseteq principals'
      \/ \E c \in Caller : \/ CreateSubscription(c) \/ CreateAction(c)
                           \/ DeleteActions(c) \/ DeleteSubscription(c)
      \/ \E gone : RemovePrincipals(gone)
  BY ZenonT(60) DEF DirectoryNext, DirectoryStep, CreatePrincipal, Seed, SubscribeCaller,
     Unsubscribe, DeletePrincipal, Begin, StartRun, MintConflicts, MintSelects, Return,
     UnsubscribeGet, MintInserts, InsertRun, Sweep, FirstEvent, DeleteGet, Die, Delete,
     tables, dirVars, Age
<1> HIDE DEF Tables
<1>9. Tables
  BY <1>2, <1>3, <1>4, <1>5, <1>6, <1>7, <1>8
<1> QED
  BY <1>1, <1>9 DEF Subscriptions, Tables

-----------------------------------------------------------------------------
LEMMA InvNext == Inv /\ [DirectoryNext]_dirVars => Inv'
<1> SUFFICES ASSUME Inv, [DirectoryNext]_dirVars PROVE Inv'
  OBVIOUS
<1>1. Advances
  BY StepAdvances
<1>2. Rows' /\ SystemStays' /\ Subscriptions'
  BY <1>1, RowsNext, SubscriptionsNext
<1>3. request \in [Caller -> Requests] /\ rowsMade' \in Nat
  BY <1>1 DEF Inv, Types, Advances
<1>4. ASSUME NEW c \in Caller, DirectoryStep(c) PROVE Inv'
  <2>1. OwnFits(c)
    BY <1>1, <1>4, BeginFits, MintFits, CreateFits, OtherFits DEF DirectoryStep
  <2>2. \A d \in Caller \ {c} : Apart(d)
    BY <1>4, StepApart
  <2>3. \A d \in Caller : Fits(d)'
    BY <1>1, <2>1, <2>2, OthersFit DEF OwnFits
  <2>4. \A d \in Caller \ {c} : request'[d] = request[d]
    BY <2>2 DEF Apart
  <2>5. request' \in [Caller -> Requests]
    <3>1. \E r : request' = [request EXCEPT ![c] = r]
      BY <1>4 DEF DirectoryStep, CreatePrincipal, Seed, SubscribeCaller, Unsubscribe,
         DeletePrincipal, Begin, StartRun, MintConflicts, MintSelects, MintInserts,
         Return, CreateSubscription, CreateAction, UnsubscribeGet, DeleteActions,
         DeleteSubscription, InsertRun, Sweep, FirstEvent, DeleteGet, Delete, Die,
         Goto, End
    <3> QED
      BY <1>3, <2>1, <3>1 DEF OwnFits
  <2>6. Starts'
    BY <1>1, <2>1, <2>4, StartsNext
  <2> QED
    BY <1>2, <1>3, <2>3, <2>5, <2>6 DEF Inv, Types
<1>5. CASE Age \/ UNCHANGED dirVars
  <2>1. UNCHANGED request
    BY <1>5 DEF Age, dirVars
  <2>2. \A d \in Caller : Apart(d)
    BY <1>5 DEF Age, dirVars, Apart, At
  <2>3. \A d \in Caller : Fits(d)'
    BY <1>1, <2>2, OthersFit
  <2>4. Starts'
    BY <1>1, <2>1, StartsNext
  <2> QED
    BY <1>2, <1>3, <2>1, <2>3, <2>4 DEF Inv, Types
<1> QED
  BY <1>4, <1>5 DEF DirectoryNext

\* However many processes mint, subscribe, start runs, sweep, delete and die at
\* the same time, an actor has one principal, the system's is never deleted, a
\* run's principal is there as long as the run needs it, and a subscription that
\* was reported has its owner and all of its actions (mint_principal,
\* delete_principal, sweep_orphaned_run_principals, subscribe, start_run).
THEOREM DirectoryStaysWhole == DirectorySpec => []DirectoryWhole
  BY InvInit, InvNext, InvImplies, PTL DEF DirectorySpec

-----------------------------------------------------------------------------
(* Access: strings and their parts                                         *)

HIDE DirectoryAssumption

\* A string of three parts is not one of a single part.
LEMMA ShortApart ==
    ASSUME NEW T, NEW s \in Seq(T), NEW x, Len(s) >= 3
    PROVE  s # <<x>>
<1> DEFINE u == <<x>>
<1>1. Len(u) = 1
  OBVIOUS
<1> HIDE DEF u
<1>2. ~(Len(u) >= 3)
  BY <1>1
<1>3. s # u
  BY <1>2, Zenon
<1> QED
  BY <1>3 DEF u

\* A string of at most one part that is not empty.
LEMMA OneElement ==
    ASSUME NEW T, NEW s \in Seq(T), s # <<>>, Len(s) <= 1
    PROVE  s[1] \in T /\ s = <<s[1]>>
<1>1. Len(s) \in Nat /\ Len(s) # 0
  BY EmptySeq
<1>2. Len(s) = 1
  BY <1>1
<1> DEFINE u == <<s[1]>>
<1>3. s[1] \in T
  BY <1>2
<1>4. u \in Seq(T) /\ Len(u) = 1 /\ u[1] = s[1]
  BY <1>3
<1> HIDE DEF u
<1>5. s = u
  BY <1>2, <1>4, SeqEqual
<1> QED
  BY <1>3, <1>5 DEF u

\* Two parts in front of a string.
Frame(a, x, text) == <<a>> \o <<x>> \o text
Framing(p, T, x, text) == /\ p \in Seq(T) /\ Len(p) = 2 + Len(text)
                          /\ p[2] = x /\ SubSeq(p, 3, Len(p)) = text

\* The string has the second part and the text where they were put.
LEMMA Framed ==
    ASSUME NEW T, NEW a \in T, NEW x \in T, NEW text \in Seq(T)
    PROVE  Framing(Frame(a, x, text), T, x, text)
<1> DEFINE p == Frame(a, x, text)
<1> HIDE DEF p
<1> DEFINE ax == <<a>> \o <<x>>
           q == SubSeq(p, 3, Len(p))
<1>1. ax \in Seq(T) /\ Len(ax) = 2 /\ ax[2] = x
  OBVIOUS
<1> HIDE DEF ax
<1>0. /\ p \in Seq(T) /\ Len(p) = Len(ax) + Len(text)
      /\ \A i \in 1 .. Len(ax) + Len(text) : p[i] = IF i <= Len(ax) THEN ax[i] ELSE text[i - Len(ax)]
  <2>1. p = ax \o text
    BY DEF ax, p, Frame
  <2>2. text \in Seq(T) /\ ax \in Seq(T)
    BY <1>1
  <2> QED
    BY <2>1, <2>2, ConcatProperties, Zenon
<1>2. p \in Seq(T) /\ Len(p) = 2 + Len(text) /\ p[2] = x
  BY <1>0, <1>1
<1>3. ASSUME NEW i \in 1 .. Len(text) PROVE p[i + 2] = text[i]
  <2>1. i + 2 \in 1 .. 2 + Len(text) /\ ~(i + 2 <= 2) /\ (i + 2) - 2 = i
    OBVIOUS
  <2> QED
    BY <1>0, <1>1, <2>1
<1>4. q \in Seq(T) /\ Len(q) = Len(text)
  BY <1>2, SubSeqProperties
<1>5. \A i \in 1 .. Len(q) : q[i] = text[i]
  <2> SUFFICES ASSUME NEW i \in 1 .. Len(q) PROVE q[i] = text[i]
    OBVIOUS
  <2>1. i \in 1 .. Len(p) - 3 + 1 /\ i \in 1 .. Len(text) /\ 3 + i - 1 = i + 2
    BY <1>2, <1>4
  <2>2. q[i] = p[3 + i - 1]
    BY <1>2, <2>1
  <2> QED
    BY <1>3, <2>1, <2>2
<1> HIDE DEF q
<1>6. q = text
  BY <1>4, <1>5, SeqEqual
<1> QED
  BY <1>2, <1>6 DEF p, q, Framing

\* A string of three parts or more is split in three, a shorter one as it is.
LEMMA SplitParts ==
    ASSUME NEW T, NEW s \in Seq(T)
    PROVE  /\ (Len(Split(s)) = 3) <=> Len(s) >= 3
           /\ Len(s) >= 3 => /\ Split(s)[1] = <<s[1]>> /\ Split(s)[2] = <<s[2]>>
                             /\ Split(s)[3] = SubSeq(s, 3, Len(s))
<1>1. Len(s) \in Nat
  OBVIOUS
<1>2. CASE Len(s) <= 2
  <2>1. Split(s) = [i \in 1 .. Len(s) |-> <<s[i]>>]
    BY <1>2 DEF Split
  <2>2. Len(Split(s)) = Len(s)
    BY <1>1, <2>1
  <2> QED
    BY <1>1, <1>2, <2>2
<1>3. CASE Len(s) > 2
  <2>1. Split(s) = <<<<s[1]>>, <<s[2]>>, SubSeq(s, 3, Len(s))>>
    BY <1>1, <1>3 DEF Split
  <2> QED
    BY <1>1, <1>3, <2>1
<1> QED
  BY <1>1, <1>2, <1>3

\* What the answers of a verifier say.
LEMMA AnswerFields ==
    /\ ~Rejected.ok /\ ~Rejected.raises /\ Rejected.audit = "failure"
    /\ ~Raised.ok /\ Raised.raises /\ Raised.audit = "none"
    /\ \A c : /\ Accepted(c).ok /\ ~Accepted(c).raises /\ Accepted(c).audit = "success"
              /\ Accepted(c).consumer = c.id
BY DEF Rejected, Raised, Accepted

\* A string a credential accepts: the token itself, or a message that was signed.
Proved(c, s) ==
    /\ c.type \in case.verifiers /\ c.consumer = "enabled"
    /\ \/ c.type # "hmac" /\ c.hash = s
       \/ /\ c.type = "hmac" /\ c.secret = "key" /\ Len(s) >= 3
          /\ \E v \in case.versions : s[2] = Mac(v, SubSeq(s, 3, Len(s)))

\* The verifiers accept only that, and audit what they answer.
LEMMA VerifierSound ==
    ASSUME NEW T, NEW s \in Seq(T), NEW c, c.secret \in {"none", "key", "unsupported"}
    PROVE  LET r == VerifyWithRecord(c, s)
           IN  /\ r.ok => r = Accepted(c) /\ Proved(c, s)
               /\ r.ok \in BOOLEAN /\ r.raises \in BOOLEAN
               /\ r.audit = IF r.raises THEN "none" ELSE IF r.ok THEN "success" ELSE "failure"
<1> DEFINE r == VerifyWithRecord(c, s)
<1>1. CASE c.type \notin case.verifiers
  BY <1>1 DEF VerifyWithRecord, Rejected
<1>2. CASE c.type \in case.verifiers /\ c.type = "hmac"
  <2>1. r = VerifyHmac(c, s)
    BY <1>2 DEF VerifyWithRecord
  <2>2. CASE r = Rejected
    BY <2>2 DEF Rejected
  <2>3. CASE r = Raised
    BY <2>3 DEF Raised
  <2>4. CASE r # Rejected /\ r # Raised
    <3>1. /\ c.secret = "key" /\ Len(Split(s)) = 3 /\ Served(c) /\ r = Accepted(c)
          /\ MacMatches(Split(s)[3], Split(s)[2])
      BY <2>1, <2>4 DEF VerifyHmac
    <3>2. PICK v \in case.versions : Split(s)[2] = <<Mac(v, Split(s)[3])>>
      BY <3>1 DEF MacMatches
    <3>3. s[2] = Mac(v, SubSeq(s, 3, Len(s)))
      <4>1. <<s[2]>> = <<Mac(v, SubSeq(s, 3, Len(s)))>>
        BY <3>1, <3>2, SplitParts
      <4> HIDE DEF r
      <4> QED
        BY <4>1
    <3> QED
      BY <1>2, <3>1, <3>3, SplitParts DEF Proved, Served, Accepted
  <2> QED
    BY <2>2, <2>3, <2>4
<1>3. CASE c.type \in case.verifiers /\ c.type # "hmac"
  <2>1. r = VerifyHash(c, s)
    BY <1>3 DEF VerifyWithRecord
  <2> QED
    BY <1>3, <2>1 DEF VerifyHash, Rejected, Accepted, Proved, Served
<1> QED
  BY <1>1, <1>2, <1>3

\* The rows authenticate() tries have the hash of the string or of its first part.
LEMMA AuthenticateFound ==
    ASSUME NEW T, NEW s \in Seq(T), s # <<>>, NEW r \in Authenticate(s)
    PROVE  \/ r = Rejected
           \/ \E c \in case.credentials : c.hash \in {s, <<s[1]>>} /\ r = VerifyWithRecord(c, s)
<1> DEFINE identifier == IF Len(Split(s)) = 3 THEN Split(s)[1] ELSE s
           HasHash(h) == {c \in case.credentials : c.hash = h}
           found == IF HasHash(identifier) = {} /\ identifier # s THEN HasHash(s)
                    ELSE HasHash(identifier)
<1>1. identifier \in {s, <<s[1]>>}
  <2>1. CASE Len(Split(s)) = 3
    <3>1. Len(s) >= 3
      BY <2>1, SplitParts
    <3> QED
      BY <2>1, <3>1, SplitParts
  <2>2. CASE Len(Split(s)) # 3
    BY <2>2
  <2> QED
    BY <2>1, <2>2
<1>2. Authenticate(s) = IF found = {} THEN {Rejected} ELSE {VerifyWithRecord(c, s) : c \in found}
  BY DEF Authenticate
<1> HIDE DEF identifier
<1>3. \A c \in found : c \in case.credentials /\ c.hash \in {s, <<s[1]>>}
  BY <1>1
<1> HIDE DEF found
<1> QED
  BY <1>2, <1>3

\* Strings and credentials of any parts; the consumers of a credential are what the
\* store says of them.
AuthInput(T) ==
    /\ case.string \in Seq(T)
    /\ \A c \in case.credentials : c.hash \in Seq(T) /\ c.secret \in {"none", "key", "unsupported"}

\* Nobody is let in but the owner of a credential (Authenticator.authenticate).
LEMMA AuthenticAlwaysSound ==
    ASSUME NEW T, case.on = "auth" => AuthInput(T)
    PROVE  AuthenticSound
<1> SUFFICES ASSUME case.on = "auth", case.string # <<>>, NEW r \in Authenticate(case.string)
             PROVE  /\ r.ok => \E c \in case.credentials :
                           /\ c.id = r.consumer /\ c.consumer = "enabled"
                           /\ c.type \in case.verifiers
                           /\ \/ c.type # "hmac" /\ c.hash = case.string
                              \/ /\ c.type = "hmac" /\ c.secret = "key"
                                 /\ c.hash \in {case.string, <<case.string[1]>>}
                                 /\ \E v \in case.versions :
                                       case.string[2] = Mac(v, SubSeq(case.string, 3, Len(case.string)))
                    /\ r.audit = IF r.raises THEN "none" ELSE IF r.ok THEN "success" ELSE "failure"
  BY DEF AuthenticSound
<1> DEFINE s == case.string
<1>0. s \in Seq(T)
  BY DEF AuthInput
<1>1. CASE r = Rejected
  BY <1>1, AnswerFields
<1>2. CASE \E c \in case.credentials : c.hash \in {s, <<s[1]>>} /\ r = VerifyWithRecord(c, s)
  <2>1. PICK c \in case.credentials : c.hash \in {s, <<s[1]>>} /\ r = VerifyWithRecord(c, s)
    BY <1>2
  <2>2. c.secret \in {"none", "key", "unsupported"}
    BY DEF AuthInput
  <2>3. /\ r.ok => r = Accepted(c) /\ Proved(c, s)
        /\ r.audit = IF r.raises THEN "none" ELSE IF r.ok THEN "success" ELSE "failure"
    BY <1>0, <2>1, <2>2, VerifierSound
  <2>4. r.ok => c.id = r.consumer
    BY <2>3, AnswerFields
  <2> QED
    BY <2>1, <2>3, <2>4 DEF Proved
<1> QED
  BY <1>0, <1>1, <1>2, AuthenticateFound

\* The owner of a credential is let in (Authenticator.authenticate).
LEMMA AuthenticAlwaysComplete ==
    ASSUME NEW T, case.on = "auth" => AuthInput(T)
    PROVE  AuthenticComplete
<1> SUFFICES ASSUME case.on = "auth", NEW c \in case.credentials,
                    c.type \in case.verifiers \ {"hmac"}, c.consumer = "enabled",
                    \A d \in case.credentials \ {c} :
                        d.hash # c.hash /\ (Len(c.hash) >= 3 => d.hash # <<c.hash[1]>>)
             PROVE  Authenticate(c.hash) = {Accepted(c)}
  BY DEF AuthenticComplete
<1> DEFINE s == c.hash
           identifier == IF Len(Split(s)) = 3 THEN Split(s)[1] ELSE s
           HasHash(h) == {d \in case.credentials : d.hash = h}
           found == IF HasHash(identifier) = {} /\ identifier # s THEN HasHash(s)
                    ELSE HasHash(identifier)
<1>0. s \in Seq(T)
  BY DEF AuthInput
<1>1. Authenticate(s) = IF found = {} THEN {Rejected} ELSE {VerifyWithRecord(d, s) : d \in found}
  BY DEF Authenticate
<1>2. HasHash(s) = {c}
  OBVIOUS
<1>3. found = {c}
  <2>1. CASE Len(Split(s)) = 3
    <3>1. Len(s) >= 3 /\ identifier = <<s[1]>>
      BY <1>0, <2>1, SplitParts
    <3>2. identifier # s
      BY <1>0, <3>1, ShortApart
    <3> HIDE DEF identifier
    <3>3. HasHash(identifier) = {}
      BY <3>1, <3>2
    <3> QED
      BY <1>2, <3>2, <3>3
  <2>2. CASE Len(Split(s)) # 3
    BY <1>2, <2>2
  <2> QED
    BY <2>1, <2>2
<1>4. VerifyWithRecord(c, s) = Accepted(c)
  BY DEF VerifyWithRecord, VerifyHash, Served
<1> HIDE DEF found
<1> QED
  BY <1>1, <1>3, <1>4

\* The middleware lets those pass whom the authenticator knows (auth_middleware).
LEMMA WallAlwaysHolds ==
    ASSUME NEW T, case.on = "auth" => AuthInput(T)
    PROVE  WallHolds
<1> SUFFICES ASSUME case.on = "auth", NEW type \in {"http", "websocket", "lifespan"},
                    NEW r \in Middleware(type, case.string)
             PROVE  /\ r.app = (r.messages = <<>>)
                    /\ type # "lifespan" /\ r.app =>
                           \E c \in case.credentials : c.id = r.context /\ c.consumer = "enabled"
                    /\ type = "lifespan" => r.app
  BY DEF WallHolds
<1>0. /\ \A x : Passed(x).app = TRUE /\ Passed(x).messages = <<>> /\ Passed(x).context = x
      /\ \A m : Turned(m).app = FALSE /\ Turned(m).messages = m
  BY DEF Passed, Turned
<1>1. CASE type = "lifespan"
  <2>1. r = Passed(0)
    BY <1>1 DEF Middleware
  <2> QED
    BY <1>0, <1>1, <2>1
<1>2. Rejection(type) # <<>>
  BY DEF Rejection
<1>3. CASE r = Turned(Rejection(type)) /\ type # "lifespan"
  BY <1>0, <1>2, <1>3
<1>4. CASE r # Turned(Rejection(type)) /\ type # "lifespan"
  <2>1. case.string # <<>>
    BY <1>4 DEF Middleware
  <2>2. PICK a \in Authenticate(case.string) :
            r = IF a.ok THEN Passed(a.consumer) ELSE Turned(Rejection(type))
    BY <1>4, <2>1 DEF Middleware
  <2>3. a.ok /\ r = Passed(a.consumer)
    BY <1>4, <2>2
  <2>4. \E c \in case.credentials : c.id = a.consumer /\ c.consumer = "enabled"
    BY <2>1, <2>3, AuthenticAlwaysSound DEF AuthenticSound
  <2> QED
    BY <1>0, <1>4, <2>3, <2>4
<1> QED
  BY <1>1, <1>3, <1>4

\* Requests with any parts.  A signature is a header without colons, and who signs signs
\* the bytes that are sent; the hash of a token is one part.
WebhookInput(T) ==
    LET req == case.request
        c == case.source.credential
    IN  /\ c.hash \in Seq(T) /\ Len(c.hash) <= 1 /\ c.secret \in {"none", "key", "unsupported"}
        /\ req.authorization \in Seq(T) /\ req.body.text \in Seq(T) \ {<<>>}
        /\ req.signature \in Seq(T) /\ Len(req.signature) <= 1 /\ Text("_") \in T
        /\ req.body.bytes \in Seq(T)
        /\ \A v \in case.versions : req.signature = <<Mac(v, req.body.text)>>
                                     => req.body.text = req.body.bytes

\* The parts of a request that is presented with its signature.
Single(sig) == sig # <<>> /\ Len(sig) <= 1
Signed(a, sig, text) == <<a>> \o sig \o text
Presenting(p, T, sig, text) == \E x : sig = <<x>> /\ Framing(p, T, x, text)

\* A signed text has its identifier, its signature and the rest.
LEMMA SignedParts ==
    ASSUME NEW T, NEW a \in T, NEW sig \in Seq(T), Single(sig),
           NEW text \in Seq(T), NEW p, p = Signed(a, sig, text)
    PROVE  Presenting(p, T, sig, text)
<1>1. sig[1] \in T /\ sig = <<sig[1]>>
  BY OneElement DEF Single
<1>2. PICK x \in T : x = sig[1]
  BY <1>1
<1>3. p = Frame(a, x, text)
  BY <1>1, <1>2 DEF Frame, Signed
<1>4. Framing(p, T, x, text)
  BY <1>3, Framed, Zenon
<1>5. x = sig[1] /\ sig = <<x>>
  BY <1>1, <1>2
<1> QED
  BY <1>4, <1>5 DEF Presenting

\* A request that is presented with its signature has the signature and the body apart.
LEMMA PresentedParts ==
    ASSUME NEW T, WebhookInput(T), case.source.signed, case.request.signature # <<>>
    PROVE  Presenting(Presented(case.request), T, case.request.signature,
                      case.request.body.text)
<1>1. PICK sig, text, p : /\ sig = case.request.signature /\ text = case.request.body.text
                          /\ p = Presented(case.request)
  OBVIOUS
<1>2. sig \in Seq(T) /\ text \in Seq(T) /\ Text("_") \in T /\ Single(sig)
  BY <1>1 DEF WebhookInput, Single
<1>3. p = Signed(Text("_"), sig, text)
  BY <1>1 DEF Presented, Signed
<1>4. Presenting(p, T, sig, text)
  BY <1>2, <1>3, SignedParts, Zenon
<1> QED
  BY <1>1, <1>4

\* The answer of the webhook: its status does not depend on what is stored, and an event
\* is stored exactly with 202, for a request that was verified.
LEMMA WebhookAnswer ==
    ASSUME NEW req, NEW kept
    PROVE  LET a == Webhook(req, kept)
               v == VerifyWithRecord(case.source.credential, Presented(req))
           IN  /\ a.status = Webhook(req, <<>>).status
               /\ a.status # 202 => a.events = kept
               /\ a.status = 202 => /\ a.events = FireEvent(kept, req) /\ v.ok
                                    /\ Presented(req) # <<>> /\ case.source.principal # 0
               /\ a.status = 400 => v.ok
BY DEF Webhook, Answer

\* A request that is delivered twice is answered on what the first one stored.
LEMMA DeliveredTwice ==
    ASSUME NEW req
    PROVE  Delivered(2, req) = Webhook(req, Webhook(req, <<>>).events)
<1> DEFINE W(kept) == Webhook(req, kept)
           body(f) == [i \in 0 .. 2 |-> IF i = 0 THEN Answer(0, <<>>) ELSE W(f[i - 1].events)]
           After == CHOOSE f : f = body(f)
           g == [i \in 0 .. 2 |-> IF i = 0 THEN Answer(0, <<>>)
                                  ELSE IF i = 1 THEN W(<<>>) ELSE W(W(<<>>).events)]
<1>0. Answer(0, <<>>).events = <<>>
  BY DEF Answer
<1>1. g = body(g)
  <2> HIDE DEF W
  <2>1. g[0] = Answer(0, <<>>) /\ g[1] = W(<<>>)
    OBVIOUS
  <2>2. ASSUME NEW i \in 0 .. 2 PROVE g[i] = body(g)[i]
    <3>1. CASE i = 0
      BY <3>1
    <3>2. CASE i = 1
      BY <1>0, <2>1, <3>2
    <3>3. CASE i = 2
      BY <2>1, <3>3
    <3> QED
      BY <3>1, <3>2, <3>3
  <2> QED
    BY <2>2
<1>2. After = body(After)
  <2> HIDE DEF g, body
  <2> QED
    BY <1>1
<1> HIDE DEF After
<1>3. After[2] = W(W(<<>>).events)
  <2> HIDE DEF W
  <2>1. After[0] = Answer(0, <<>>)
    BY <1>2
  <2>2. After[1] = W(<<>>)
    BY <1>0, <1>2, <2>1
  <2> QED
    BY <1>2, <2>2
<1>4. Delivered(2, req) = After[2]
  BY DEF Delivered, After
<1> QED
  BY <1>3, <1>4

\* What is presented to the verifier is a string, and if it proves the credential of a
\* source with signatures, the body was signed.
LEMMA PresentedProves ==
    ASSUME NEW T, WebhookInput(T), Presented(case.request) # <<>>
    PROVE  /\ Presented(case.request) \in Seq(T)
           /\ Proved(case.source.credential, Presented(case.request)) /\ case.source.signed
                 => \E v \in case.versions :
                       case.request.signature = <<Mac(v, case.request.body.bytes)>>
<1>1. CASE ~case.source.signed
  BY <1>1 DEF Presented, WebhookInput
<1>2. CASE case.source.signed
  <2>1. case.request.signature # <<>>
    BY <1>2 DEF Presented
  <2>2. PICK p, sig, text, c : /\ sig = case.request.signature /\ text = case.request.body.text
                               /\ p = Presented(case.request) /\ c = case.source.credential
    OBVIOUS
  <2>3. PICK x : sig = <<x>> /\ Framing(p, T, x, text)
    BY <1>2, <2>1, <2>2, PresentedParts DEF Presenting
  <2>4. p \in Seq(T) /\ Len(p) = 2 + Len(text) /\ p[2] = x /\ SubSeq(p, 3, Len(p)) = text
    BY <2>3 DEF Framing
  <2>5. text \in Seq(T) /\ c.hash \in Seq(T) /\ Len(c.hash) <= 1
    BY <2>2 DEF WebhookInput
  <2>6. ASSUME Proved(c, p)
        PROVE  \E v \in case.versions : sig = <<Mac(v, case.request.body.bytes)>>
    <3>1. Len(text) \in Nat /\ Len(c.hash) \in Nat
      BY <2>5
    <3>2. ~(Len(p) <= 1)
      BY <2>4, <3>1
    <3>3. c.hash # p
      BY <2>5, <3>2
    <3>4. PICK v \in case.versions : p[2] = Mac(v, SubSeq(p, 3, Len(p)))
      BY <2>6, <3>3 DEF Proved
    <3>5. x = Mac(v, text)
      BY <2>4, <3>4
    <3>6. sig = <<Mac(v, text)>>
      BY <2>3, <3>5
    <3>7. text = case.request.body.bytes
      BY <2>2, <3>6 DEF WebhookInput
    <3> QED
      BY <3>6, <3>7
  <2> QED
    BY <2>2, <2>4, <2>6
<1> QED
  BY <1>1, <1>2

\* A body that was signed is accepted exactly if it is the text it decodes to.
LEMMA SignedAccepted ==
    ASSUME NEW T, WebhookInput(T), case.source.signed,
           NEW v \in case.versions, case.request.signature = <<Mac(v, case.request.body.bytes)>>,
           case.source.credential.type = "hmac", case.source.credential.secret = "key",
           case.source.credential.consumer = "enabled", "hmac" \in case.verifiers
    PROVE  /\ Presented(case.request) # <<>>
           /\ VerifyWithRecord(case.source.credential, Presented(case.request))
                 = IF case.request.body.bytes = case.request.body.text
                   THEN Accepted(case.source.credential) ELSE Rejected
<1>1. PICK p, sig, text, bytes, c :
          /\ sig = case.request.signature /\ text = case.request.body.text
          /\ bytes = case.request.body.bytes
          /\ p = Presented(case.request) /\ c = case.source.credential
  OBVIOUS
<1>2. sig = <<Mac(v, bytes)>>
  BY <1>1
<1>3. sig # <<>>
  BY <1>2
<1>4. PICK x : sig = <<x>> /\ Framing(p, T, x, text)
  BY <1>1, <1>3, PresentedParts DEF Presenting
<1>5. p \in Seq(T) /\ Len(p) = 2 + Len(text) /\ p[2] = x /\ SubSeq(p, 3, Len(p)) = text
  BY <1>4 DEF Framing
<1>6. x = Mac(v, bytes)
  BY <1>2, <1>4
<1>7. Len(text) \in Nat \ {0}
  BY <1>1, EmptySeq DEF WebhookInput
<1>8. Len(p) >= 3
  BY <1>5, <1>7
<1>9. Len(Split(p)) = 3 /\ Split(p)[2] = <<x>> /\ Split(p)[3] = text
  BY <1>5, <1>8, SplitParts
<1>10. VerifyWithRecord(c, p) = IF MacMatches(Split(p)[3], Split(p)[2]) THEN Accepted(c) ELSE Rejected
  BY <1>1, <1>9 DEF VerifyWithRecord, VerifyHmac, Served
<1>11. MacMatches(text, <<x>>) <=> bytes = text
  <2>1. \A w : <<Mac(v, bytes)>> = <<Mac(w, text)>> => bytes = text
    BY DEF Mac
  <2> QED
    BY <1>6, <2>1 DEF MacMatches
<1>12. p # <<>>
  <2>1. Len(<<>>) = 0
    OBVIOUS
  <2>2. Len(p) # 0
    BY <1>5, <1>7
  <2> QED
    BY <2>1, <2>2
<1> QED
  BY <1>1, <1>9, <1>10, <1>11, <1>12

\* The first event of a source, and a repeated one.
LEMMA FiredOnce ==
    ASSUME NEW req
    PROVE  LET e == FireEvent(<<>>, req)
           IN  /\ e # <<>> /\ e[1].by = case.source.principal
               /\ req.key # 0 => FireEvent(e, req) = e
<1> DEFINE rec == [key |-> req.key, body |-> req.body, by |-> case.source.principal,
                   type |-> EventType(req)]
           e == FireEvent(<<>>, req)
<1>1. e = Append(<<>>, rec)
  BY DEF FireEvent
<1>2. rec.by = case.source.principal /\ rec.key = req.key
  OBVIOUS
<1> HIDE DEF rec
<1>3. e = <<rec>>
  BY <1>1
<1> HIDE DEF e
<1>4. e # <<>> /\ Len(e) = 1 /\ e[1] = rec
  BY <1>3
<1>5. req.key # 0 => FireEvent(e, req) = e
  BY <1>2, <1>4 DEF FireEvent
<1> QED
  BY <1>2, <1>4, <1>5 DEF e

\* A webhook is taken only from its source, and once (the webhook and replay endpoints).
LEMMA WebhooksAlwaysAuthentic ==
    ASSUME NEW T, case.on = "webhook" => WebhookInput(T)
    PROVE  WebhooksAuthentic
<1> SUFFICES ASSUME case.on = "webhook" PROVE WebhooksAuthentic
  BY DEF WebhooksAuthentic
<1> DEFINE source == case.source
           req == case.request
           once == Webhook(req, <<>>)
           twice == Delivered(2, req)
           ver == VerifyWithRecord(source.credential, Presented(req))
           signed == \E v \in case.versions : req.signature = <<Mac(v, req.body.bytes)>>
<1>0. WebhookInput(T) /\ source.credential.secret \in {"none", "key", "unsupported"}
  BY DEF WebhookInput
<1>1. /\ once.status # 202 => once.events = <<>>
      /\ once.status = 202 => /\ once.events = FireEvent(<<>>, req) /\ ver.ok
                              /\ Presented(req) # <<>> /\ source.principal # 0
      /\ once.status = 400 => ver.ok
  BY WebhookAnswer
<1>2. /\ twice.status = once.status
      /\ once.status # 202 => twice.events = once.events
      /\ once.status = 202 => twice.events = FireEvent(once.events, req)
  BY WebhookAnswer, DeliveredTwice
<1>3. once.events # <<>> =>
          /\ once.status = 202 /\ source.credential.consumer = "enabled"
          /\ once.events[1].by = source.principal /\ source.principal # 0
          /\ source.signed => signed
  <2> SUFFICES ASSUME once.events # <<>>
               PROVE  /\ once.status = 202 /\ source.credential.consumer = "enabled"
                      /\ once.events[1].by = source.principal /\ source.principal # 0
                      /\ source.signed => signed
    OBVIOUS
  <2>1. once.status = 202
    BY <1>1
  <2>2. /\ once.events = FireEvent(<<>>, req) /\ ver.ok
        /\ Presented(req) # <<>> /\ source.principal # 0
    BY <1>1, <2>1
  <2>3. Presented(req) \in Seq(T)
    BY <1>0, <2>2, PresentedProves
  <2>4. Proved(source.credential, Presented(req))
    BY <1>0, <2>2, <2>3, VerifierSound
  <2>5. once.events[1].by = source.principal
    BY <2>2, FiredOnce
  <2>6. source.credential.consumer = "enabled"
    BY <2>4 DEF Proved
  <2>7. source.signed => signed
    BY <1>0, <2>2, <2>4, PresentedProves
  <2> QED
    BY <2>1, <2>2, <2>5, <2>6, <2>7
<1>4. req.key # 0 => twice.events = once.events
  BY <1>1, <1>2, FiredOnce
<1>5. ASSUME signed, source.signed, source.exists, source.principal # 0,
             source.credential.id # 0, source.credential.consumer = "enabled",
             source.credential.type = "hmac", source.credential.secret = "key",
             "hmac" \in case.verifiers, source.typed = "constant", ~req.large
      PROVE  once.status = IF req.body.bytes # req.body.text THEN 401
                           ELSE IF req.body.json THEN 202 ELSE 400
  <2>1. /\ Presented(req) # <<>>
        /\ ver = IF req.body.bytes = req.body.text THEN Accepted(source.credential) ELSE Rejected
    BY <1>0, <1>5, SignedAccepted
  <2>2. EventType(req) = "constant"
    BY <1>5 DEF EventType
  <2>3. \A n, e : Answer(n, e).status = n
    BY DEF Answer
  <2>4. CASE req.body.bytes # req.body.text
    <3>1. ~ver.ok /\ ~ver.raises
      BY <2>1, <2>4, AnswerFields
    <3>2. once = Answer(401, <<>>)
      BY <1>5, <2>1, <3>1 DEF Webhook
    <3> QED
      BY <2>3, <2>4, <3>2
  <2>5. CASE req.body.bytes = req.body.text
    <3>1. ver.ok /\ ~ver.raises
      BY <2>1, <2>5, AnswerFields
    <3>2. once = IF ~req.body.json THEN Answer(400, <<>>) ELSE Answer(202, FireEvent(<<>>, req))
      BY <1>5, <2>1, <2>2, <3>1 DEF Webhook
    <3> QED
      BY <2>3, <2>5, <3>2
  <2> QED
    BY <2>4, <2>5
<1>6. ReplayEndpoint(req).status = 200 =>
          /\ SourceStream(req).events = source.principal
          /\ \/ /\ source.credential.type # "hmac"
                /\ req.authorization = source.credential.hash
             \/ /\ source.credential.type = "hmac"
                /\ \E v \in case.versions : req.authorization[2] =
                       Mac(v, SubSeq(req.authorization, 3, Len(req.authorization)))
  <2> SUFFICES ASSUME ReplayEndpoint(req).status = 200
               PROVE  /\ SourceStream(req).events = source.principal
                      /\ \/ /\ source.credential.type # "hmac"
                            /\ req.authorization = source.credential.hash
                         \/ /\ source.credential.type = "hmac"
                            /\ \E v \in case.versions : req.authorization[2] =
                                   Mac(v, SubSeq(req.authorization, 3, Len(req.authorization)))
    OBVIOUS
  <2>1. \A n, e : Answer(n, e).status = n /\ Answer(n, e).events = e
    BY DEF Answer
  <2>2. /\ ReplayEndpoint(req) = Answer(200, source.principal)
        /\ VerifyWithRecord(source.credential, req.authorization).ok
    BY <2>1 DEF ReplayEndpoint
  <2>3. req.authorization \in Seq(T)
    BY <1>0 DEF WebhookInput
  <2>4. Proved(source.credential, req.authorization)
    BY <1>0, <2>2, <2>3, VerifierSound
  <2> QED
    BY <2>1, <2>2, <2>4 DEF Proved, SourceStream
<1> HIDE DEF once, twice
<1> QED
  BY <1>1, <1>2, <1>3, <1>4, <1>5, <1>6 DEF WebhooksAuthentic, once, twice

\* A stream is its own principal's (resolve_caller and the run access check).
LEMMA TenantsAlwaysApart ==
    ASSUME case.on = "stream" => case.auth.consumer # -1
    PROVE  TenantsApart
BY DEF TenantsApart, NotificationTarget, RunAccess, ResolveCaller

-----------------------------------------------------------------------------
(* Induction                                                               *)

\* A set of numbers that is not empty has a least one.
LEMMA LeastExists ==
    ASSUME NEW S \in SUBSET Nat, S # {}
    PROVE  \E m \in S : \A y \in S : m <= y
<1>1. PICK e \in S : \A d \in S : ~(<<d, e>> \in OpToRel(<, Nat))
  BY NatLessThanWellFounded, WFMin, Zenon
<1>2. OpToRel(<, Nat) = {ss \in Nat \X Nat : ss[1] < ss[2]}
  BY Zenon DEF OpToRel
<1>3. ASSUME NEW d \in S PROVE e <= d
  <2>1. <<d, e>> \in Nat \X Nat
    OBVIOUS
  <2>2. ~(d < e)
    BY <1>1, <1>2, <2>1
  <2> QED
    BY <2>2
<1> QED
  BY <1>3

\* Induction, for a set of numbers.
LEMMA Reaches ==
    ASSUME NEW S, NEW n \in Nat, 0 \in S,
           \A k \in Nat : k < n /\ k \in S => k + 1 \in S
    PROVE  n \in S
<1> DEFINE Bad == {k \in Nat : k <= n /\ k \notin S}
<1>1. ASSUME Bad # {} PROVE FALSE
  <2>1. PICK m \in Bad : \A y \in Bad : m <= y
    <3>1. Bad \in SUBSET Nat
      OBVIOUS
    <3> HIDE DEF Bad
    <3> QED
      BY <1>1, <3>1, LeastExists
  <2>2. m \in Nat /\ m <= n /\ m \notin S /\ m # 0
    OBVIOUS
  <2>3. m - 1 \in Nat /\ m - 1 < n /\ m - 1 \notin Bad
    <3> HIDE DEF Bad
    <3> QED
      BY <2>1, <2>2
  <2>4. m - 1 \in S
    BY <2>3
  <2>5. (m - 1) + 1 \in S /\ (m - 1) + 1 = m
    BY <2>2, <2>3, <2>4
  <2> QED
    BY <2>2, <2>5
<1>2. n \notin Bad
  BY <1>1
<1> QED
  BY <1>2

-----------------------------------------------------------------------------
(* Access: texts made from left to right                                   *)

\* A way through a text, and what is made of it from each position on.
Onward(n, next) == next \in [1 .. n -> 1 .. n + 1] /\ \A i \in 1 .. n : next[i] > i
Made(F, n, U, out, next) ==
    /\ F \in [1 .. n + 1 -> Seq(U)] /\ F[n + 1] = <<>>
    /\ \A i \in 1 .. n : F[i] = out[i] \o F[next[i]]

\* What is made exists.
LEMMA MadeExists ==
    ASSUME NEW U, NEW n \in Nat, NEW out \in [1 .. n -> Seq(U)], NEW next, Onward(n, next)
    PROVE  \E F : Made(F, n, U, out, next)
<1> DEFINE Partly(g, k) == /\ g \in [n + 1 - k .. n + 1 -> Seq(U)] /\ g[n + 1] = <<>>
                           /\ \A i \in n + 1 - k .. n : g[i] = out[i] \o g[next[i]]
           S == {k \in Nat : k <= n => \E g : Partly(g, k)}
<1>1. 0 \in S
  <2> DEFINE g == [i \in n + 1 .. n + 1 |-> <<>>]
  <2>1. Partly(g, 0)
    <3>1. g \in [n + 1 - 0 .. n + 1 -> Seq(U)] /\ g[n + 1] = <<>>
      BY EmptySeq
    <3>2. n + 1 - 0 .. n = {}
      OBVIOUS
    <3> QED
      BY <3>1, <3>2
  <2> HIDE DEF Partly, g
  <2> QED
    BY <2>1
<1>2. ASSUME NEW k \in Nat, k < n, k \in S PROVE k + 1 \in S
  <2>1. PICK g : Partly(g, k)
    <3> HIDE DEF Partly
    <3> QED
      BY <1>2
  <2> DEFINE m == n - k
             h == [i \in m .. n + 1 |-> IF i = m THEN out[m] \o g[next[m]] ELSE g[i]]
  <2>2. m \in 1 .. n /\ n + 1 - (k + 1) = m /\ n + 1 - k = m + 1
    BY <1>2
  <2> HIDE DEF m
  <2>3. next[m] \in m + 1 .. n + 1 /\ out[m] \in Seq(U)
    BY <2>2 DEF Onward
  <2>4. /\ g \in [m + 1 .. n + 1 -> Seq(U)] /\ g[n + 1] = <<>>
        /\ \A i \in m + 1 .. n : g[i] = out[i] \o g[next[i]]
    BY <2>1, <2>2
  <2>5. out[m] \o g[next[m]] \in Seq(U)
    BY <2>3, <2>4, ConcatProperties
  <2>6. h \in [m .. n + 1 -> Seq(U)]
    <3>1. ASSUME NEW i \in m .. n + 1 PROVE (IF i = m THEN out[m] \o g[next[m]] ELSE g[i]) \in Seq(U)
      <4>1. CASE i = m
        BY <2>5, <4>1
      <4>2. CASE i # m
        <5>1. i \in m + 1 .. n + 1
          BY <2>2, <4>2
        <5> QED
          BY <2>4, <4>2, <5>1
      <4> QED
        BY <4>1, <4>2
    <3> QED
      BY <3>1
  <2>7. /\ h[m] = out[m] \o g[next[m]]
        /\ \A i \in m + 1 .. n + 1 : h[i] = g[i]
    BY <2>2
  <2> HIDE DEF h
  <2>8. h[n + 1] = <<>>
    <3>1. n + 1 \in m + 1 .. n + 1
      BY <2>2
    <3> QED
      BY <2>4, <2>7, <3>1
  <2>9. ASSUME NEW i \in m .. n PROVE h[i] = out[i] \o h[next[i]]
    <3>1. CASE i = m
      BY <2>3, <2>7, <3>1
    <3>2. CASE i # m
      <4>1. i \in m + 1 .. n /\ i \in m + 1 .. n + 1 /\ i \in 1 .. n
        BY <2>2, <3>2
      <4>2. next[i] \in m + 1 .. n + 1
        BY <2>2, <4>1 DEF Onward
      <4>3. h[i] = g[i] /\ h[next[i]] = g[next[i]]
        BY <2>7, <4>1, <4>2
      <4> QED
        BY <2>4, <4>1, <4>3
    <3> QED
      BY <3>1, <3>2
  <2>10. Partly(h, k + 1)
    BY <2>2, <2>6, <2>8, <2>9
  <2> HIDE DEF Partly
  <2> QED
    BY <2>10
<1>3. n \in S
  <2> HIDE DEF S
  <2> QED
    BY <1>1, <1>2, Reaches
<1>4. PICK g : Partly(g, n)
  <2> HIDE DEF Partly
  <2> QED
    BY <1>3
<1>5. n + 1 - n = 1
  OBVIOUS
<1>6. Made(g, n, U, out, next)
  BY <1>4, <1>5 DEF Made
<1> QED
  BY <1>6

\* A function on the first numbers is a sequence.
LEMMA IsASeqFunction ==
    ASSUME NEW U, NEW n \in Nat, NEW f \in [1 .. n -> U]
    PROVE  f \in Seq(U) /\ Len(f) = n
OBVIOUS

\* Emitted is what is made from the beginning.
LEMMA EmittedMade ==
    ASSUME NEW U, NEW n \in Nat, NEW out \in [1 .. n -> Seq(U)], NEW next, Onward(n, next)
    PROVE  \E F : Made(F, n, U, out, next) /\ Emitted(out, next) = F[1]
<1>1. PICK F : Made(F, n, U, out, next)
  BY MadeExists
<1>2. Len(out) = n
  BY IsASeqFunction
<1> DEFINE body(f) == [i \in 1 .. n + 1 |-> IF i > n THEN <<>> ELSE out[i] \o f[next[i]]]
           From == CHOOSE f : f = body(f)
<1>3. Emitted(out, next) = From[1]
  BY <1>2 DEF Emitted
<1>4. F = body(F)
  <2>1. ASSUME NEW i \in 1 .. n + 1 PROVE F[i] = IF i > n THEN <<>> ELSE out[i] \o F[next[i]]
    <3>1. CASE i > n
      <4>1. i = n + 1
        BY <3>1
      <4> QED
        BY <1>1, <3>1, <4>1 DEF Made
    <3>2. CASE ~(i > n)
      <4>1. i \in 1 .. n
        BY <3>2
      <4> QED
        BY <1>1, <3>2, <4>1 DEF Made
    <3> QED
      BY <3>1, <3>2
  <2>2. F = [i \in 1 .. n + 1 |-> F[i]]
    BY <1>1 DEF Made
  <2> QED
    BY <2>1, <2>2
<1>5. From = body(From)
  <2> HIDE DEF body
  <2> QED
    BY <1>4
<1> HIDE DEF From
<1>6. \A i \in 1 .. n : From[i] = out[i] \o From[next[i]]
  <2>1. ASSUME NEW i \in 1 .. n PROVE From[i] = out[i] \o From[next[i]]
    <3>1. i \in 1 .. n + 1 /\ ~(i > n)
      OBVIOUS
    <3> QED
      BY <1>5, <3>1
  <2> QED
    BY <2>1
<1>7. From[n + 1] = <<>>
  <2>1. n + 1 \in 1 .. n + 1 /\ n + 1 > n
    OBVIOUS
  <2> QED
    BY <1>5, <2>1
<1> HIDE DEF body
<1> DEFINE S == {k \in Nat : \A i \in 1 .. n + 1 : i >= n + 1 - k => From[i] = F[i]}
<1>8. 0 \in S
  <2>1. ASSUME NEW i \in 1 .. n + 1, i >= n + 1 - 0 PROVE From[i] = F[i]
    <3>1. i = n + 1
      BY <2>1
    <3> QED
      BY <1>1, <1>7, <3>1 DEF Made
  <2> QED
    BY <2>1
<1>9. ASSUME NEW k \in Nat, k \in S PROVE k + 1 \in S
  <2>1. ASSUME NEW i \in 1 .. n + 1, i >= n + 1 - (k + 1) PROVE From[i] = F[i]
    <3>1. CASE i = n + 1
      BY <1>1, <1>7, <3>1 DEF Made
    <3>2. CASE i # n + 1
      <4>1. i \in 1 .. n
        BY <3>2
      <4>2. next[i] \in 1 .. n + 1 /\ next[i] >= n + 1 - k
        BY <2>1, <4>1 DEF Onward
      <4>3. From[next[i]] = F[next[i]]
        BY <1>9, <4>2
      <4> QED
        BY <1>1, <1>6, <4>1, <4>3 DEF Made
    <3> QED
      BY <3>1, <3>2
  <2> QED
    BY <2>1
<1>10. n \in S
  <2> HIDE DEF S
  <2> QED
    BY <1>8, <1>9, Reaches
<1>11. From[1] = F[1]
  BY <1>10
<1> QED
  BY <1>1, <1>3, <1>11

\* One element in front of a sequence.
Fronted(c, a, s, U) == /\ c \in Seq(U) /\ Len(c) = Len(s) + 1 /\ c[1] = a
                       /\ \A j \in 1 .. Len(s) : c[j + 1] = s[j]

\* The elements of a sequence with one in front.
LEMMA ConsParts ==
    ASSUME NEW U, NEW a \in U, NEW s \in Seq(U)
    PROVE  Fronted(Cons(a, s), a, s, U)
<1> DEFINE u == <<a>>
           c == u \o s
<1>1. u \in Seq(U) /\ Len(u) = 1 /\ u[1] = a
  OBVIOUS
<1> HIDE DEF u
<1>2. /\ c \in Seq(U) /\ Len(c) = Len(u) + Len(s)
      /\ \A i \in 1 .. Len(u) + Len(s) : c[i] = IF i <= Len(u) THEN u[i] ELSE s[i - Len(u)]
  BY <1>1, ConcatProperties
<1>3. c = Cons(a, s)
  BY DEF Cons, u
<1> HIDE DEF c
<1>4. Len(s) \in Nat
  OBVIOUS
<1>5. c \in Seq(U) /\ Len(c) = Len(s) + 1 /\ c[1] = a
  BY <1>1, <1>2, <1>4
<1>6. ASSUME NEW j \in 1 .. Len(s) PROVE c[j + 1] = s[j]
  <2>1. j + 1 \in 1 .. 1 + Len(s) /\ ~(j + 1 <= 1) /\ (j + 1) - 1 = j
    BY <1>4
  <2> QED
    BY <1>1, <1>2, <2>1
<1> QED
  BY <1>3, <1>5, <1>6 DEF Fronted

\* A value begins at a position of a text.
Occurs(text, value, i) ==
    /\ i + Len(value) - 1 <= Len(text)
    /\ \A j \in 1 .. Len(value) : text[i + j - 1] = value[j]

Absent(value, text) == \A i \in 1 .. Len(text) : ~Occurs(text, value, i)

\* What str.replace makes of a text from each position on.
Swept(F, text, value, by, U) ==
    /\ F \in [1 .. Len(text) + 1 -> Seq(U)] /\ F[Len(text) + 1] = <<>>
    /\ \A i \in 1 .. Len(text) :
          IF Occurs(text, value, i)
          THEN i + Len(value) \in 2 .. Len(text) + 1 /\ F[i] = Cons(by, F[i + Len(value)])
          ELSE F[i] = Cons(text[i], F[i + 1])

\* str.replace goes through the text so.
LEMMA ReplacedSwept ==
    ASSUME NEW U, NEW text \in Seq(U), NEW value \in Seq(U), Len(value) >= 1, NEW by \in U
    PROVE  \E F : Swept(F, text, value, by, U) /\ Replaced(text, value, by) = F[1]
<1> DEFINE n == Len(text)
           l == Len(value)
           out == [i \in 1 .. n |-> IF Occurs(text, value, i) THEN <<by>> ELSE <<text[i]>>]
           next == [i \in 1 .. n |-> IF Occurs(text, value, i) THEN i + l ELSE i + 1]
<1>0. n \in Nat /\ l \in Nat /\ l >= 1
  OBVIOUS
<1>1. Replaced(text, value, by) = Emitted(out, next)
  BY DEF Replaced, Occurs
<1>2. \A i \in 1 .. n : Occurs(text, value, i) => i + l - 1 <= n
  BY DEF Occurs
<1> HIDE DEF n, l
<1>3. Onward(n, next)
  <2>1. ASSUME NEW i \in 1 .. n
        PROVE  /\ (IF Occurs(text, value, i) THEN i + l ELSE i + 1) \in 1 .. n + 1
               /\ (IF Occurs(text, value, i) THEN i + l ELSE i + 1) > i
    BY <1>0, <1>2
  <2> QED
    BY <2>1 DEF Onward
<1>4. out \in [1 .. n -> Seq(U)]
  <2>1. ASSUME NEW i \in 1 .. n PROVE (IF Occurs(text, value, i) THEN <<by>> ELSE <<text[i]>>) \in Seq(U)
    <3>1. text[i] \in U
      BY DEF n
    <3>2. <<by>> \in Seq(U) /\ <<text[i]>> \in Seq(U)
      BY <3>1
    <3> QED
      BY <3>2
  <2> QED
    BY <2>1
<1>5. /\ \A i \in 1 .. n : out[i] = IF Occurs(text, value, i) THEN <<by>> ELSE <<text[i]>>
      /\ \A i \in 1 .. n : next[i] = IF Occurs(text, value, i) THEN i + l ELSE i + 1
  OBVIOUS
<1> HIDE DEF out, next
<1>6. PICK F : Made(F, n, U, out, next) /\ Emitted(out, next) = F[1]
  BY <1>0, <1>3, <1>4, EmittedMade
<1>7. /\ F \in [1 .. n + 1 -> Seq(U)] /\ F[n + 1] = <<>>
      /\ \A i \in 1 .. n : F[i] = out[i] \o F[next[i]]
  BY <1>6 DEF Made
<1>8. ASSUME NEW i \in 1 .. n
      PROVE  IF Occurs(text, value, i)
             THEN i + l \in 2 .. n + 1 /\ F[i] = Cons(by, F[i + l])
             ELSE F[i] = Cons(text[i], F[i + 1])
  <2>1. CASE Occurs(text, value, i)
    <3>1. out[i] = <<by>> /\ next[i] = i + l
      BY <1>5, <2>1
    <3>2. F[i] = <<by>> \o F[i + l]
      BY <1>7, <3>1
    <3>3. i + l \in 2 .. n + 1
      BY <1>0, <1>2, <2>1
    <3>4. F[i] = Cons(by, F[i + l])
      BY <3>2 DEF Cons
    <3> QED
      BY <2>1, <3>3, <3>4
  <2>2. CASE ~Occurs(text, value, i)
    <3>1. out[i] = <<text[i]>> /\ next[i] = i + 1
      BY <1>5, <2>2
    <3>2. F[i] = <<text[i]>> \o F[i + 1]
      BY <1>7, <3>1
    <3>3. F[i] = Cons(text[i], F[i + 1])
      BY <3>2 DEF Cons
    <3> QED
      BY <2>2, <3>3
  <2> QED
    BY <2>1, <2>2
<1>9. Swept(F, text, value, by, U)
  BY <1>7, <1>8 DEF Swept, n, l
<1> QED
  BY <1>1, <1>6, <1>9

\* Where the value does not occur nothing is changed.
LEMMA ReplacedNothing ==
    ASSUME NEW U, NEW text \in Seq(U), NEW value \in Seq(U), Len(value) >= 1, NEW by \in U,
           Absent(value, text)
    PROVE  Replaced(text, value, by) = text
<1> DEFINE n == Len(text)
<1>0. n \in Nat
  OBVIOUS
<1>1. PICK F : Swept(F, text, value, by, U) /\ Replaced(text, value, by) = F[1]
  BY ReplacedSwept
<1>2. /\ F \in [1 .. n + 1 -> Seq(U)] /\ F[n + 1] = <<>>
      /\ \A i \in 1 .. n : F[i] = Cons(text[i], F[i + 1])
  BY <1>1 DEF Swept, Absent
<1>t. \A i \in 1 .. n : text[i] \in U
  OBVIOUS
<1> HIDE DEF n
<1> DEFINE Rest(i) == Len(F[i]) = n + 1 - i /\ \A j \in 1 .. n + 1 - i : F[i][j] = text[i + j - 1]
           S == {d \in Nat : d <= n => Rest(n + 1 - d)}
<1>3. 0 \in S
  <2>1. Rest(n + 1)
    <3>1. Len(F[n + 1]) = 0
      BY <1>2, EmptySeq
    <3>2. n + 1 - (n + 1) = 0 /\ 1 .. 0 = {}
      BY <1>0
    <3> QED
      BY <3>1, <3>2
  <2> HIDE DEF Rest
  <2>2. n + 1 - 0 = n + 1
    BY <1>0
  <2> QED
    BY <2>1, <2>2
<1>4. ASSUME NEW d \in Nat, d < n, d \in S PROVE d + 1 \in S
  <2> DEFINE i == n - d
  <2>1. i \in 1 .. n /\ n + 1 - d = i + 1 /\ n + 1 - (d + 1) = i
    BY <1>0, <1>4
  <2>2. Rest(i + 1)
    <3> HIDE DEF Rest, i
    <3>1. Rest(n + 1 - d)
      BY <1>0, <1>4
    <3> QED
      BY <2>1, <3>1, Zenon
  <2> HIDE DEF i
  <2>3. F[i + 1] \in Seq(U) /\ text[i] \in U /\ F[i] = Cons(text[i], F[i + 1])
    BY <1>0, <1>2, <1>t, <2>1
  <2>4. /\ Len(F[i]) = Len(F[i + 1]) + 1 /\ F[i][1] = text[i]
        /\ \A j \in 1 .. Len(F[i + 1]) : F[i][j + 1] = F[i + 1][j]
    <3>1. Fronted(F[i], text[i], F[i + 1], U)
      BY <2>3, ConsParts, Zenon
    <3> QED
      BY <3>1 DEF Fronted
  <2>5. Len(F[i + 1]) = n - i /\ \A j \in 1 .. n - i : F[i + 1][j] = text[i + j]
    <3>1. n + 1 - (i + 1) = n - i /\ \A j \in Nat : i + 1 + j - 1 = i + j
      BY <1>0, <2>1
    <3> QED
      BY <2>2, <3>1
  <2>6. ASSUME NEW j \in 1 .. n + 1 - i PROVE F[i][j] = text[i + j - 1]
    <3>1. CASE j = 1
      <4>1. i + 1 - 1 = i
        BY <2>1
      <4> QED
        BY <2>4, <3>1, <4>1
    <3>2. CASE j # 1
      <4>1. j - 1 \in 1 .. n - i /\ (j - 1) + 1 = j /\ i + (j - 1) = i + j - 1
        BY <1>0, <2>1, <3>2
      <4>2. F[i][(j - 1) + 1] = F[i + 1][j - 1]
        BY <2>4, <2>5, <4>1
      <4>3. F[i + 1][j - 1] = text[i + (j - 1)]
        BY <2>5, <4>1
      <4> QED
        BY <4>1, <4>2, <4>3
    <3> QED
      BY <3>1, <3>2
  <2>7. Len(F[i]) = n + 1 - i
    BY <1>0, <2>1, <2>4, <2>5
  <2>8. Rest(i)
    BY <2>6, <2>7
  <2> HIDE DEF Rest
  <2> QED
    BY <2>1, <2>8
<1>5. n \in S
  <2> HIDE DEF S
  <2> QED
    BY <1>0, <1>3, <1>4, Reaches
<1>6. Rest(1)
  <2> HIDE DEF Rest
  <2>1. n + 1 - n = 1
    BY <1>0
  <2> QED
    BY <1>0, <1>5, <2>1
<1>7. F[1] \in Seq(U) /\ Len(F[1]) = Len(text) /\ \A j \in 1 .. Len(text) : F[1][j] = text[j]
  <2>1. n + 1 - 1 = n /\ \A j \in Nat : 1 + j - 1 = j
    BY <1>0
  <2>2. F[1] \in Seq(U)
    BY <1>0, <1>2
  <2>3. Len(F[1]) = n /\ \A j \in 1 .. n : F[1][j] = text[j]
    BY <1>6, <2>1
  <2> QED
    BY <2>2, <2>3 DEF n
<1>8. F[1] = text
  BY <1>7, SeqEqual
<1> QED
  BY <1>1, <1>8

\* A text that is the value becomes the replacement.
LEMMA ReplacedWhole ==
    ASSUME NEW U, NEW value \in Seq(U), Len(value) >= 1, NEW by \in U
    PROVE  Replaced(value, value, by) = <<by>>
<1>1. PICK F : Swept(F, value, value, by, U) /\ Replaced(value, value, by) = F[1]
  BY ReplacedSwept
<1>0. Len(value) \in Nat
  OBVIOUS
<1>2. Occurs(value, value, 1)
  <2>1. 1 + Len(value) - 1 <= Len(value) /\ \A j \in 1 .. Len(value) : 1 + j - 1 = j
    BY <1>0
  <2> QED
    BY <2>1 DEF Occurs
<1>3. 1 \in 1 .. Len(value) /\ 1 + Len(value) = Len(value) + 1
  BY <1>0
<1>4. F[1] = Cons(by, <<>>)
  BY <1>1, <1>2, <1>3 DEF Swept
<1>5. <<by>> \o <<>> = <<by>>
  BY ConcatEmptySeq
<1> QED
  BY <1>1, <1>4, <1>5 DEF Cons

\* Induction from the end of a text to its beginning.
LEMMA Descends ==
    ASSUME NEW n \in Nat, NEW S, n + 1 \in S,
           \A i \in 1 .. n : (\A k \in i + 1 .. n + 1 : k \in S) => i \in S
    PROVE  \A i \in 1 .. n + 1 : i \in S
<1> DEFINE D == {d \in Nat : \A i \in 1 .. n + 1 : i >= n + 1 - d => i \in S}
<1>1. 0 \in D
  <2>1. ASSUME NEW i \in 1 .. n + 1, i >= n + 1 - 0 PROVE i \in S
    <3>1. i = n + 1
      BY <2>1
    <3> QED
      BY <3>1
  <2> QED
    BY <2>1
<1>2. ASSUME NEW d \in Nat, d \in D PROVE d + 1 \in D
  <2>1. ASSUME NEW i \in 1 .. n + 1, i >= n + 1 - (d + 1) PROVE i \in S
    <3>1. CASE i = n + 1
      BY <3>1
    <3>2. CASE i # n + 1
      <4>1. i \in 1 .. n
        BY <3>2
      <4>2. ASSUME NEW k \in i + 1 .. n + 1 PROVE k \in S
        <5>1. k \in 1 .. n + 1 /\ k >= n + 1 - d
          BY <2>1, <4>1
        <5> QED
          BY <1>2, <5>1
      <4> QED
        BY <4>1, <4>2
    <3> QED
      BY <3>1, <3>2
  <2> QED
    BY <2>1
<1>3. n \in D
  <2> HIDE DEF D
  <2> QED
    BY <1>1, <1>2, Reaches
<1> QED
  BY <1>3

\* A step of str.replace puts one element in front of what comes later.
LEMMA SweptStep ==
    ASSUME NEW U, NEW text \in Seq(U), NEW value \in Seq(U), Len(value) >= 1, NEW by \in U,
           NEW F, Swept(F, text, value, by, U), NEW i \in 1 .. Len(text)
    PROVE  \/ /\ Occurs(text, value, i) /\ i + Len(value) \in i + 1 .. Len(text) + 1
              /\ F[i + Len(value)] \in Seq(U) /\ Fronted(F[i], by, F[i + Len(value)], U)
           \/ /\ ~Occurs(text, value, i) /\ i + 1 \in i + 1 .. Len(text) + 1
              /\ F[i + 1] \in Seq(U) /\ Fronted(F[i], text[i], F[i + 1], U)
<1>0. Len(text) \in Nat /\ Len(value) \in Nat /\ text[i] \in U
  OBVIOUS
<1>1. CASE Occurs(text, value, i)
  <2>1. i + Len(value) \in 2 .. Len(text) + 1 /\ F[i] = Cons(by, F[i + Len(value)])
    BY <1>1 DEF Swept
  <2>2. i + Len(value) \in i + 1 .. Len(text) + 1 /\ i + Len(value) \in 1 .. Len(text) + 1
    BY <1>0, <2>1
  <2>3. F[i + Len(value)] \in Seq(U)
    BY <2>2 DEF Swept
  <2>4. Fronted(F[i], by, F[i + Len(value)], U)
    BY <2>1, <2>3, ConsParts, Zenon
  <2> QED
    BY <1>1, <2>2, <2>3, <2>4
<1>2. CASE ~Occurs(text, value, i)
  <2>1. F[i] = Cons(text[i], F[i + 1])
    BY <1>2 DEF Swept
  <2>2. i + 1 \in i + 1 .. Len(text) + 1 /\ i + 1 \in 1 .. Len(text) + 1
    BY <1>0
  <2>3. F[i + 1] \in Seq(U)
    BY <2>2 DEF Swept
  <2>4. Fronted(F[i], text[i], F[i + 1], U)
    BY <1>0, <2>1, <2>3, ConsParts, Zenon
  <2> QED
    BY <1>2, <2>2, <2>3, <2>4
<1> QED
  BY <1>1, <1>2

\* A run of letters at the beginning of what is made is a run of the text.
Copies(F, text, Lt, i) ==
    \A m \in 1 .. Len(F[i]) :
        (\A j \in 1 .. m : F[i][j] \in Lt)
            => i + m - 1 <= Len(text) /\ \A j \in 1 .. m : text[i + j - 1] = F[i][j]

\* Every position has it.
LEMMA SweptCopies ==
    ASSUME NEW U, NEW text \in Seq(U), NEW value \in Seq(U), Len(value) >= 1, NEW by \in U,
           NEW F, Swept(F, text, value, by, U), NEW Lt, by \notin Lt
    PROVE  \A i \in 1 .. Len(text) + 1 : Copies(F, text, Lt, i)
<1> DEFINE n == Len(text)
           S == {i \in 1 .. n + 1 : Copies(F, text, Lt, i)}
<1>0. n \in Nat
  OBVIOUS
<1>1. n + 1 \in S
  <2>1. Len(F[n + 1]) = 0
    BY EmptySeq DEF Swept
  <2>2. 1 .. 0 = {} /\ n + 1 \in 1 .. n + 1
    BY <1>0
  <2> QED
    BY <2>1, <2>2 DEF Copies
<1>2. ASSUME NEW i \in 1 .. n, \A k \in i + 1 .. n + 1 : k \in S PROVE i \in S
  <2>1. CASE Fronted(F[i], by, F[i + Len(value)], U)
    <3>1. F[i][1] \notin Lt
      BY <2>1 DEF Fronted
    <3>2. \A m \in 1 .. Len(F[i]) : 1 \in 1 .. m
      OBVIOUS
    <3> QED
      BY <1>0, <3>1, <3>2 DEF Copies
  <2>2. CASE F[i + 1] \in Seq(U) /\ Fronted(F[i], text[i], F[i + 1], U)
    <3>1. Copies(F, text, Lt, i + 1)
      BY <1>0, <1>2
    <3>2. /\ Len(F[i]) = Len(F[i + 1]) + 1 /\ F[i][1] = text[i] /\ Len(F[i + 1]) \in Nat
          /\ \A j \in 1 .. Len(F[i + 1]) : F[i][j + 1] = F[i + 1][j]
      BY <2>2 DEF Fronted
    <3>3. ASSUME NEW m \in 1 .. Len(F[i]), \A j \in 1 .. m : F[i][j] \in Lt
          PROVE  i + m - 1 <= n /\ \A j \in 1 .. m : text[i + j - 1] = F[i][j]
      <4>1. CASE m = 1
        <5>1. i + 1 - 1 = i /\ i <= n /\ \A j \in 1 .. 1 : j = 1
          BY <1>0
        <5> QED
          BY <3>2, <4>1, <5>1
      <4>2. CASE m # 1
        <5>1. m - 1 \in 1 .. Len(F[i + 1])
          BY <3>2, <4>2
        <5>2. ASSUME NEW j \in 1 .. m - 1 PROVE F[i + 1][j] = F[i][j + 1] /\ F[i + 1][j] \in Lt
          <6>a. PICK l \in Nat : l = Len(F[i + 1])
            BY <3>2
          <6>0. l = Len(F[i + 1]) /\ m - 1 \in 1 .. l /\ m \in Int
            BY <5>1, <6>a
          <6>1. j \in 1 .. l /\ j + 1 \in 1 .. m
            BY <6>0
          <6> QED
            BY <3>2, <3>3, <6>0, <6>1
        <5>3. (i + 1) + (m - 1) - 1 <= n /\ \A j \in 1 .. m - 1 : text[(i + 1) + j - 1] = F[i + 1][j]
          BY <3>1, <5>1, <5>2 DEF Copies
        <5>4. i + m - 1 <= n
          BY <1>0, <5>3
        <5>5. ASSUME NEW j \in 1 .. m PROVE text[i + j - 1] = F[i][j]
          <6>1. CASE j = 1
            <7>1. i + 1 - 1 = i
              BY <1>0
            <7> QED
              BY <3>2, <6>1, <7>1
          <6>2. CASE j # 1
            <7>1. j - 1 \in 1 .. m - 1 /\ (j - 1) + 1 = j /\ (i + 1) + (j - 1) - 1 = i + j - 1
              BY <1>0, <6>2
            <7>2. F[i + 1][j - 1] = F[i][(j - 1) + 1]
              BY <5>2, <7>1
            <7>3. text[(i + 1) + (j - 1) - 1] = F[i + 1][j - 1]
              BY <5>3, <7>1
            <7> QED
              BY <7>1, <7>2, <7>3
          <6> QED
            BY <6>1, <6>2
        <5> QED
          BY <5>4, <5>5
      <4> QED
        BY <4>1, <4>2
    <3>4. Copies(F, text, Lt, i)
      BY <3>3 DEF Copies
    <3> QED
      BY <1>0, <3>4
  <2> QED
    BY <2>1, <2>2, SweptStep
<1>3. \A i \in 1 .. n + 1 : i \in S
  <2> HIDE DEF S
  <2> QED
    BY <1>0, <1>1, <1>2, Descends
<1> QED
  BY <1>3

\* Replacing by what is no letter removes the value and brings in no other.
LEMMA ReplacedAbsent ==
    ASSUME NEW U, NEW text \in Seq(U), NEW value \in Seq(U), Len(value) >= 1, NEW by \in U,
           NEW Lt, by \notin Lt, NEW w \in Seq(Lt), Len(w) >= 1, w = value \/ Absent(w, text)
    PROVE  Absent(w, Replaced(text, value, by))
<1>1. PICK F : Swept(F, text, value, by, U) /\ Replaced(text, value, by) = F[1]
  BY ReplacedSwept
<1> DEFINE n == Len(text)
           S == {i \in 1 .. n + 1 : Absent(w, F[i])}
<1>0. n \in Nat /\ Len(w) \in Nat /\ \A j \in 1 .. Len(w) : w[j] \in Lt
  OBVIOUS
<1>2. n + 1 \in S
  <2>1. Len(F[n + 1]) = 0
    BY <1>1, EmptySeq DEF Swept
  <2>2. 1 .. 0 = {} /\ n + 1 \in 1 .. n + 1
    BY <1>0
  <2> QED
    BY <2>1, <2>2 DEF Absent
<1>3. ASSUME NEW i \in 1 .. n, \A k \in i + 1 .. n + 1 : k \in S PROVE i \in S
  <2>1. ASSUME NEW a, NEW nx \in i + 1 .. n + 1, F[nx] \in Seq(U), Fronted(F[i], a, F[nx], U),
               NEW k \in 1 .. Len(F[i]), k # 1
        PROVE  ~Occurs(F[i], w, k)
    <3>1. Absent(w, F[nx])
      BY <1>3
    <3>2. /\ Len(F[i]) = Len(F[nx]) + 1 /\ Len(F[nx]) \in Nat
          /\ \A j \in 1 .. Len(F[nx]) : F[i][j + 1] = F[nx][j]
      BY <2>1 DEF Fronted
    <3>3. k - 1 \in 1 .. Len(F[nx])
      BY <2>1, <3>2
    <3>4. ASSUME Occurs(F[i], w, k) PROVE Occurs(F[nx], w, k - 1)
      <4>1. k + Len(w) - 1 <= Len(F[i])
        BY <3>4 DEF Occurs
      <4>2. (k - 1) + Len(w) - 1 <= Len(F[nx])
        BY <1>0, <3>2, <3>3, <4>1
      <4>3. ASSUME NEW j \in 1 .. Len(w) PROVE F[nx][(k - 1) + j - 1] = w[j]
        <5>1. (k - 1) + j - 1 \in 1 .. Len(F[nx]) /\ ((k - 1) + j - 1) + 1 = k + j - 1
          <6>1. PICK l \in Nat : l = Len(F[nx])
            BY <3>2
          <6>2. PICK z \in Nat : z = Len(w)
            BY <1>0
          <6>3. k - 1 \in 1 .. l /\ (k - 1) + z - 1 <= l /\ j \in 1 .. z
            BY <3>3, <4>2, <6>1, <6>2
          <6>4. (k - 1) + j - 1 \in 1 .. l /\ ((k - 1) + j - 1) + 1 = k + j - 1
            BY <6>3
          <6> QED
            BY <6>1, <6>4
        <5>2. F[i][((k - 1) + j - 1) + 1] = F[nx][(k - 1) + j - 1]
          BY <3>2, <5>1
        <5>3. F[i][k + j - 1] = w[j]
          BY <3>4 DEF Occurs
        <5> QED
          BY <5>1, <5>2, <5>3
      <4> QED
        BY <4>2, <4>3 DEF Occurs
    <3> QED
      BY <3>1, <3>3, <3>4 DEF Absent
  <2>2. ASSUME Occurs(F[i], w, 1)
        PROVE  /\ Len(w) <= Len(F[i]) /\ \A j \in 1 .. Len(w) : F[i][j] = w[j]
    <3>1. 1 + Len(w) - 1 = Len(w) /\ \A j \in 1 .. Len(w) : 1 + j - 1 = j
      BY <1>0
    <3> QED
      BY <2>2, <3>1 DEF Occurs
  <2>3. CASE /\ i + Len(value) \in i + 1 .. n + 1 /\ F[i + Len(value)] \in Seq(U)
             /\ Fronted(F[i], by, F[i + Len(value)], U)
    <3>1. F[i][1] = by
      BY <2>3 DEF Fronted
    <3>2. ~Occurs(F[i], w, 1)
      <4>1. 1 \in 1 .. Len(w)
        BY <1>0
      <4> QED
        BY <1>0, <2>2, <3>1, <4>1
    <3>3. \A k \in 1 .. Len(F[i]) : ~Occurs(F[i], w, k)
      BY <2>1, <2>3, <3>2
    <3> QED
      BY <1>0, <3>3 DEF Absent
  <2>4. CASE /\ ~Occurs(text, value, i) /\ i + 1 \in i + 1 .. n + 1
             /\ F[i + 1] \in Seq(U) /\ Fronted(F[i], text[i], F[i + 1], U)
    <3>1. ASSUME Occurs(F[i], w, 1) PROVE FALSE
      <4>1. Len(F[i]) \in Nat
        <5>1. F[i] \in Seq(U)
          BY <2>4 DEF Fronted
        <5> QED
          BY <5>1
      <4>2. Len(w) \in 1 .. Len(F[i]) /\ \A j \in 1 .. Len(w) : F[i][j] \in Lt
        BY <1>0, <2>2, <3>1, <4>1
      <4>3. Copies(F, text, Lt, i)
        <5>1. i \in 1 .. Len(text) + 1
          BY <1>0
        <5> QED
          BY <1>1, <5>1, SweptCopies
      <4>4. i + Len(w) - 1 <= Len(text) /\ \A j \in 1 .. Len(w) : text[i + j - 1] = F[i][j]
        BY <4>2, <4>3 DEF Copies
      <4>5. Occurs(text, w, i)
        BY <2>2, <3>1, <4>4 DEF Occurs
      <4> QED
        BY <2>4, <4>5 DEF Absent
    <3>2. \A k \in 1 .. Len(F[i]) : ~Occurs(F[i], w, k)
      BY <2>1, <2>4, <3>1
    <3> QED
      BY <1>0, <3>2 DEF Absent
  <2> QED
    BY <1>1, <2>3, <2>4, SweptStep
<1>4. \A i \in 1 .. n + 1 : i \in S
  <2> HIDE DEF S
  <2> QED
    BY <1>0, <1>2, <1>3, Descends
<1>5. 1 \in S
  BY <1>0, <1>4
<1> QED
  BY <1>1, <1>5

-----------------------------------------------------------------------------
(* Access: substitution gives the text back                                *)

\* What substitute makes of a character.
ValueOf(c, secrets) ==
    IF "secret" \in DOMAIN c /\ c.secret \in DOMAIN secrets THEN secrets[c.secret] ELSE <<c>>

Filled(G, text, secrets, U) ==
    /\ G \in [1 .. Len(text) + 1 -> Seq(U)] /\ G[Len(text) + 1] = <<>>
    /\ \A i \in 1 .. Len(text) : G[i] = ValueOf(text[i], secrets) \o G[i + 1]

\* substitute goes through the text so.
LEMMA SubstituteFilled ==
    ASSUME NEW U, NEW secrets, NEW text \in Seq(U), \A c \in U : ValueOf(c, secrets) \in Seq(U)
    PROVE  \E G : Filled(G, text, secrets, U) /\ Substitute(text, secrets) = G[1]
<1> DEFINE n == Len(text)
           out == [i \in 1 .. n |-> ValueOf(text[i], secrets)]
           next == [i \in 1 .. n |-> i + 1]
<1>0. n \in Nat
  OBVIOUS
<1>1. Substitute(text, secrets) = Emitted(out, next)
  BY DEF Substitute, ValueOf
<1>2. \A i \in 1 .. n : ValueOf(text[i], secrets) \in Seq(U)
  OBVIOUS
<1> HIDE DEF n
<1>3. out \in [1 .. n -> Seq(U)] /\ \A i \in 1 .. n : out[i] = ValueOf(text[i], secrets)
  BY <1>2
<1>4. Onward(n, next) /\ \A i \in 1 .. n : next[i] = i + 1
  BY <1>0 DEF Onward
<1> HIDE DEF out, next
<1>5. PICK G : Made(G, n, U, out, next) /\ Emitted(out, next) = G[1]
  BY <1>0, <1>3, <1>4, EmittedMade
<1>6. Filled(G, text, secrets, U)
  BY <1>3, <1>4, <1>5 DEF Made, Filled, n
<1> QED
  BY <1>1, <1>5, <1>6

\* A character in front of a text is substituted in front of the rest.
LEMMA SubstituteCons ==
    ASSUME NEW U, NEW secrets, NEW text \in Seq(U), NEW a \in U,
           \A c \in U : ValueOf(c, secrets) \in Seq(U)
    PROVE  Substitute(Cons(a, text), secrets) = ValueOf(a, secrets) \o Substitute(text, secrets)
<1> DEFINE y == Cons(a, text)
           n == Len(text)
<1> HIDE DEF y
<1>0. n \in Nat
  OBVIOUS
<1>1. y \in Seq(U) /\ Len(y) = n + 1 /\ y[1] = a /\ \A j \in 1 .. n : y[j + 1] = text[j]
  <2>1. Fronted(y, a, text, U)
    BY ConsParts DEF y
  <2> QED
    BY <2>1 DEF Fronted
<1>2. PICK G : Filled(G, y, secrets, U) /\ Substitute(y, secrets) = G[1]
  <2>1. y \in Seq(U)
    BY <1>1
  <2> QED
    BY <2>1, SubstituteFilled
<1>3. PICK H : Filled(H, text, secrets, U) /\ Substitute(text, secrets) = H[1]
  BY SubstituteFilled
<1>4. /\ G[n + 2] = <<>> /\ \A i \in 1 .. n + 1 : G[i] = ValueOf(y[i], secrets) \o G[i + 1]
  <2>1. Len(y) + 1 = n + 2
    BY <1>0, <1>1
  <2> QED
    BY <1>1, <1>2, <2>1 DEF Filled
<1>5. H[n + 1] = <<>> /\ \A i \in 1 .. n : H[i] = ValueOf(text[i], secrets) \o H[i + 1]
  BY <1>3 DEF Filled
<1> HIDE DEF n
<1> DEFINE S == {i \in 1 .. n + 1 : G[i + 1] = H[i]}
<1>6. n + 1 \in S
  <2>1. (n + 1) + 1 = n + 2 /\ n + 1 \in 1 .. n + 1
    BY <1>0
  <2> QED
    BY <1>4, <1>5, <2>1
<1>7. ASSUME NEW i \in 1 .. n, \A k \in i + 1 .. n + 1 : k \in S PROVE i \in S
  <2>1. i + 1 \in i + 1 .. n + 1 /\ i + 1 \in 1 .. n + 1 /\ i \in 1 .. n + 1
    BY <1>0
  <2>2. G[(i + 1) + 1] = H[i + 1]
    BY <1>7, <2>1
  <2>3. G[i + 1] = ValueOf(y[i + 1], secrets) \o G[(i + 1) + 1]
    BY <1>4, <2>1
  <2>4. y[i + 1] = text[i]
    BY <1>1 DEF n
  <2>5. H[i] = ValueOf(text[i], secrets) \o H[i + 1]
    BY <1>5
  <2>6. G[i + 1] = H[i]
    BY <2>2, <2>3, <2>4, <2>5, Zenon
  <2> QED
    BY <2>1, <2>6
<1>8. \A i \in 1 .. n + 1 : i \in S
  <2> HIDE DEF S
  <2> QED
    BY <1>0, <1>6, <1>7, Descends
<1>9. G[2] = H[1]
  <2>1. 1 \in 1 .. n + 1 /\ 1 + 1 = 2
    BY <1>0
  <2>2. G[1 + 1] = H[1]
    BY <1>8, <2>1
  <2> QED
    BY <2>1, <2>2
<1>10. G[1] = ValueOf(a, secrets) \o G[2]
  <2>1. 1 \in 1 .. n + 1 /\ 1 + 1 = 2
    BY <1>0
  <2>2. G[1] = ValueOf(y[1], secrets) \o G[1 + 1]
    BY <1>4, <2>1
  <2> QED
    BY <1>1, <2>1, <2>2
<1> QED
  BY <1>2, <1>3, <1>9, <1>10 DEF y

\* A run of characters that are no placeholders stays as it is.
PlainAt(text, value, i, secrets) ==
    /\ i + Len(value) - 1 <= Len(text)
    /\ \A j \in 1 .. Len(value) : /\ text[i + j - 1] = value[j]
                                  /\ ValueOf(value[j], secrets) = <<value[j]>>
RunKept(G, value, i) == G[i] = value \o G[i + Len(value)]

Associates(a, t, g) == <<a>> \o (t \o g) = (<<a>> \o t) \o g

\* An element in front of a text made of two.
LEMMA ConsConcat ==
    ASSUME NEW U, NEW a \in U, NEW t \in Seq(U), NEW g \in Seq(U)
    PROVE  Associates(a, t, g)
<1>1. <<a>> \in Seq(U)
  OBVIOUS
<1>2. PICK u \in Seq(U) : u = <<a>>
  BY <1>1
<1>3. (u \o t) \o g = u \o (t \o g)
  BY ConcatAssociative
<1> QED
  BY <1>2, <1>3 DEF Associates

\* It does so anywhere in a text.
LEMMA PlainRun ==
    ASSUME NEW U, NEW secrets, NEW text \in Seq(U), NEW G, Filled(G, text, secrets, U),
           NEW value \in Seq(U), NEW i \in 1 .. Len(text) + 1,
           PlainAt(text, value, i, secrets)
    PROVE  RunKept(G, value, i)
<1> DEFINE l == Len(value)
           n == Len(text)
           Rest(k) == G[i + k] = SubSeq(value, k + 1, l) \o G[i + l]
           S == {d \in Nat : d <= l => Rest(l - d)}
<1>0. l \in Nat /\ n \in Nat /\ i + l \in 1 .. n + 1
  BY DEF PlainAt
<1>1. G \in [1 .. n + 1 -> Seq(U)] /\ \A k \in 1 .. n : G[k] = ValueOf(text[k], secrets) \o G[k + 1]
  BY DEF Filled
<1>2. \A j \in 1 .. l : /\ text[i + j - 1] = value[j] /\ value[j] \in U
                        /\ ValueOf(value[j], secrets) = <<value[j]>>
  BY DEF PlainAt
<1>3. SubSeq(value, l + 1, l) = <<>>
  BY <1>0, SubSeqEmpty
<1>4. \A k \in 1 .. l : /\ SubSeq(value, k, l) = <<value[k]>> \o SubSeq(value, k + 1, l)
                        /\ SubSeq(value, k + 1, l) \in Seq(U)
  <2>1. ASSUME NEW k \in 1 .. l
        PROVE  SubSeq(value, k, l) = <<value[k]>> \o SubSeq(value, k + 1, l)
    <3>1. l \in k .. Len(value) /\ k \in 1 .. Len(value)
      BY <1>0
    <3> QED
      BY <3>1, SubSeqRecursiveFirst
  <2>2. ASSUME NEW k \in 1 .. l PROVE SubSeq(value, k + 1, l) \in Seq(U)
    <3>1. k + 1 \in Int /\ l \in Int /\ \A j \in k + 1 .. l : value[j] \in U
      BY <1>0, <1>2
    <3> QED
      BY <3>1, SubSeqProperties
  <2> QED
    BY <2>1, <2>2
<1>5. SubSeq(value, 1, l) = value
  BY SubSeqFull
<1> HIDE DEF l, n
<1>6. 0 \in S
  <2>1. G[i + l] \in Seq(U)
    BY <1>0, <1>1
  <2>2. <<>> \o G[i + l] = G[i + l]
    BY <2>1, ConcatEmptySeq
  <2>3. l - 0 = l
    BY <1>0
  <2> QED
    BY <1>3, <2>2, <2>3
<1>7. ASSUME NEW d \in Nat, d < l, d \in S PROVE d + 1 \in S
  <2> DEFINE k == l - d
  <2>1. k \in 1 .. l /\ l - (d + 1) = k - 1 /\ i + (k - 1) = i + k - 1 /\ i + k - 1 \in 1 .. n
        /\ (i + k - 1) + 1 = i + k /\ (k - 1) + 1 = k
    BY <1>0, <1>7
  <2>2. Rest(k)
    <3> HIDE DEF Rest
    <3> QED
      BY <1>0, <1>7
  <2> HIDE DEF k
  <2> DEFINE v == value[k]
             tail == SubSeq(value, k + 1, l)
             g == G[i + l]
  <2>3. tail \in Seq(U) /\ g \in Seq(U) /\ v \in U /\ SubSeq(value, k, l) = <<v>> \o tail
    BY <1>0, <1>1, <1>2, <1>4, <2>1
  <2>4. G[i + k - 1] = ValueOf(text[i + k - 1], secrets) \o G[(i + k - 1) + 1]
    BY <1>1, <2>1
  <2>5. ValueOf(text[i + k - 1], secrets) = <<v>>
    BY <1>2, <2>1
  <2>6. G[(i + k - 1) + 1] = tail \o g
    BY <2>1, <2>2
  <2> HIDE DEF v, tail, g
  <2>7. <<v>> \o (tail \o g) = (<<v>> \o tail) \o g
    <3>1. tail \in Seq(U) /\ g \in Seq(U) /\ v \in U
      BY <2>3
    <3>2. Associates(v, tail, g)
      BY <3>1, ConsConcat, Zenon
    <3> QED
      BY <3>2 DEF Associates
  <2>8. G[i + k - 1] = SubSeq(value, k, l) \o g
    BY <2>3, <2>4, <2>5, <2>6, <2>7, Zenon
  <2>9. Rest(k - 1)
    BY <2>1, <2>8 DEF g
  <2> HIDE DEF Rest
  <2> QED
    BY <2>1, <2>9
<1>8. l \in S
  <2> HIDE DEF S
  <2> QED
    BY <1>0, <1>6, <1>7, Reaches
<1>9. Rest(0)
  <2> HIDE DEF Rest
  <2>1. l - l = 0
    BY <1>0
  <2> QED
    BY <1>0, <1>8, <2>1
<1>10. i + 0 = i /\ 0 + 1 = 1
  BY <1>0
<1>11. G[i] = value \o G[i + l]
  BY <1>5, <1>9, <1>10
<1> QED
  BY <1>11 DEF l, RunKept

\* An empty text has nothing to substitute; a plain one stays as it is.
LEMMA SubstitutePlain ==
    ASSUME NEW U, NEW secrets, NEW text \in Seq(U), \A c \in U : ValueOf(c, secrets) \in Seq(U),
           \A j \in 1 .. Len(text) : ValueOf(text[j], secrets) = <<text[j]>>
    PROVE  Substitute(text, secrets) = text
<1>1. PICK G : Filled(G, text, secrets, U) /\ Substitute(text, secrets) = G[1]
  BY SubstituteFilled
<1>0. Len(text) \in Nat
  OBVIOUS
<1>2. 1 \in 1 .. Len(text) + 1 /\ 1 + Len(text) - 1 <= Len(text)
      /\ 1 + Len(text) = Len(text) + 1 /\ \A j \in 1 .. Len(text) : 1 + j - 1 = j
  BY <1>0
<1>3. PlainAt(text, text, 1, secrets)
  BY <1>2 DEF PlainAt
<1>4. G[1] = text \o G[1 + Len(text)]
  <2>1. RunKept(G, text, 1)
    BY <1>1, <1>2, <1>3, PlainRun, Zenon
  <2> QED
    BY <2>1 DEF RunKept
<1>5. G[1 + Len(text)] = <<>>
  BY <1>1, <1>2 DEF Filled
<1>6. text \o <<>> = text
  BY ConcatEmptySeq
<1> QED
  BY <1>1, <1>4, <1>5, <1>6

\* Replacing a value by its placeholder does not change what substitution gives.
LEMMA SubstituteKept ==
    ASSUME NEW U, NEW secrets, NEW text \in Seq(U), \A c \in U : ValueOf(c, secrets) \in Seq(U),
           NEW value \in Seq(U), Len(value) >= 1, NEW by \in U, ValueOf(by, secrets) = value,
           \A j \in 1 .. Len(value) : ValueOf(value[j], secrets) = <<value[j]>>
    PROVE  Substitute(Replaced(text, value, by), secrets) = Substitute(text, secrets)
<1>1. PICK F : Swept(F, text, value, by, U) /\ Replaced(text, value, by) = F[1]
  BY ReplacedSwept
<1>2. PICK G : Filled(G, text, secrets, U) /\ Substitute(text, secrets) = G[1]
  BY SubstituteFilled
<1> DEFINE n == Len(text)
           S == {i \in 1 .. n + 1 : Substitute(F[i], secrets) = G[i]}
<1>0. n \in Nat /\ Len(value) \in Nat
  OBVIOUS
<1>3. n + 1 \in S
  <2>1. F[n + 1] = <<>> /\ G[n + 1] = <<>> /\ n + 1 \in 1 .. n + 1
    BY <1>0, <1>1, <1>2 DEF Swept, Filled
  <2>2. Substitute(<<>>, secrets) = <<>>
    <3> DEFINE e == <<>>
    <3>1. e \in Seq(U) /\ Len(e) = 0
      BY EmptySeq
    <3>2. \A j \in 1 .. 0 : ValueOf(e[j], secrets) = <<e[j]>>
      OBVIOUS
    <3> HIDE DEF e
    <3>3. Substitute(e, secrets) = e
      BY <3>1, <3>2, SubstitutePlain
    <3> QED
      BY <3>3 DEF e
  <2> QED
    BY <2>1, <2>2
<1>4. ASSUME NEW i \in 1 .. n, \A k \in i + 1 .. n + 1 : k \in S PROVE i \in S
  <2>0. i \in 1 .. n + 1 /\ i + 1 \in i + 1 .. n + 1 /\ i + 1 \in 1 .. n + 1 /\ text[i] \in U
    BY <1>0
  <2>1. CASE Occurs(text, value, i)
    <3>1. i + Len(value) \in i + 1 .. n + 1 /\ F[i] = Cons(by, F[i + Len(value)])
      BY <1>0, <1>1, <2>1 DEF Swept
    <3>2. F[i + Len(value)] \in Seq(U)
      BY <1>0, <1>1, <3>1 DEF Swept
    <3>3. Substitute(F[i], secrets) = value \o Substitute(F[i + Len(value)], secrets)
      BY <3>1, <3>2, SubstituteCons
    <3>4. Substitute(F[i + Len(value)], secrets) = G[i + Len(value)]
      BY <1>4, <3>1
    <3>5. G[i] = value \o G[i + Len(value)]
      <4>1. PlainAt(text, value, i, secrets)
        BY <2>1 DEF Occurs, PlainAt
      <4>2. RunKept(G, value, i)
        BY <1>2, <2>0, <4>1, PlainRun, Zenon
      <4> QED
        BY <4>2 DEF RunKept
    <3>6. Substitute(F[i], secrets) = G[i]
      BY <3>3, <3>4, <3>5, Zenon
    <3> QED
      BY <2>0, <3>6
  <2>2. CASE ~Occurs(text, value, i)
    <3>1. F[i] = Cons(text[i], F[i + 1]) /\ F[i + 1] \in Seq(U)
      BY <1>1, <2>0, <2>2 DEF Swept
    <3>2. Substitute(F[i], secrets) = ValueOf(text[i], secrets) \o Substitute(F[i + 1], secrets)
      BY <2>0, <3>1, SubstituteCons
    <3>3. Substitute(F[i + 1], secrets) = G[i + 1]
      BY <1>4, <2>0
    <3>4. G[i] = ValueOf(text[i], secrets) \o G[i + 1]
      BY <1>2 DEF Filled
    <3>5. Substitute(F[i], secrets) = G[i]
      BY <3>2, <3>3, <3>4, Zenon
    <3> QED
      BY <2>0, <3>5
  <2> QED
    BY <2>1, <2>2
<1>5. \A i \in 1 .. n + 1 : i \in S
  <2> HIDE DEF S
  <2> QED
    BY <1>0, <1>3, <1>4, Descends
<1>6. Substitute(F[1], secrets) = G[1]
  BY <1>0, <1>5
<1> QED
  BY <1>1, <1>2, <1>6

\* Replacing makes a text again.
LEMMA ReplacedText ==
    ASSUME NEW U, NEW text \in Seq(U), NEW value \in Seq(U), Len(value) >= 1, NEW by \in U
    PROVE  Replaced(text, value, by) \in Seq(U)
<1>1. PICK F : Swept(F, text, value, by, U) /\ Replaced(text, value, by) = F[1]
  BY ReplacedSwept
<1>2. F \in [1 .. Len(text) + 1 -> Seq(U)] /\ 1 \in 1 .. Len(text) + 1
  BY <1>1 DEF Swept
<1> QED
  BY <1>1, <1>2

-----------------------------------------------------------------------------
(* Access: scrubbing, one secret after the other                           *)

\* What is needed of the secrets to follow scrub through them: letters are no
\* placeholders, no value is empty.
Scrubs(secrets, order, n, Lt, U) ==
    /\ n \in Nat /\ order \in [1 .. n -> DOMAIN secrets] /\ Lt \subseteq U
    /\ \A m \in DOMAIN secrets : /\ secrets[m] \in Seq(Lt) /\ Len(secrets[m]) >= 1
                                 /\ Placeholder(m) \in U /\ Placeholder(m) \notin Lt

\* The texts after each of the secrets.
Step(s, secrets, m) == Replaced(s, secrets[m], Placeholder(m))
Walked(W, text, secrets, order, n, U) ==
    /\ W \in [0 .. n -> Seq(U)] /\ W[0] = text
    /\ \A i \in 1 .. n : W[i] = Step(W[i - 1], secrets, order[i])

\* A sequence of letters is a text.
LEMMA Wider ==
    ASSUME NEW Lt, NEW U, Lt \subseteq U, NEW s \in Seq(Lt)
    PROVE  s \in Seq(U)
<1>1. Len(s) \in Nat /\ s \in [1 .. Len(s) -> Lt]
  OBVIOUS
<1>2. s \in [1 .. Len(s) -> U]
  BY <1>1
<1> QED
  BY <1>1, <1>2, IsASeqFunction

\* One secret.
LEMMA StepText ==
    ASSUME NEW secrets, NEW order, NEW n, NEW Lt, NEW U, Scrubs(secrets, order, n, Lt, U),
           NEW m \in DOMAIN secrets, NEW s \in Seq(U)
    PROVE  Step(s, secrets, m) \in Seq(U)
<1>1. secrets[m] \in Seq(Lt) /\ Len(secrets[m]) >= 1 /\ Placeholder(m) \in U /\ Lt \subseteq U
  BY DEF Scrubs
<1>2. secrets[m] \in Seq(U)
  BY <1>1, Wider
<1> QED
  BY <1>1, <1>2, ReplacedText DEF Step

\* The texts exist.
LEMMA WalkExists ==
    ASSUME NEW secrets, NEW order, NEW n, NEW Lt, NEW U, Scrubs(secrets, order, n, Lt, U),
           NEW text \in Seq(U)
    PROVE  \E W : Walked(W, text, secrets, order, n, U)
<1>0. n \in Nat /\ \A i \in 1 .. n : order[i] \in DOMAIN secrets
  BY DEF Scrubs
<1> DEFINE S == {k \in Nat : k <= n => \E g : Walked(g, text, secrets, order, k, U)}
<1>1. 0 \in S
  <2> DEFINE g == [i \in 0 .. 0 |-> text]
  <2>1. g \in [0 .. 0 -> Seq(U)] /\ g[0] = text /\ 1 .. 0 = {}
    OBVIOUS
  <2> HIDE DEF g
  <2>2. Walked(g, text, secrets, order, 0, U)
    BY <2>1 DEF Walked
  <2> QED
    BY <2>2
<1>2. ASSUME NEW k \in Nat, k < n, k \in S PROVE k + 1 \in S
  <2>1. PICK g : Walked(g, text, secrets, order, k, U)
    BY <1>0, <1>2
  <2>2. g \in [0 .. k -> Seq(U)] /\ g[0] = text
        /\ \A i \in 1 .. k : g[i] = Step(g[i - 1], secrets, order[i])
    BY <2>1 DEF Walked
  <2> DEFINE last == Step(g[k], secrets, order[k + 1])
             h == [i \in 0 .. k + 1 |-> IF i = k + 1 THEN last ELSE g[i]]
  <2>3. last \in Seq(U)
    <3>1. g[k] \in Seq(U) /\ order[k + 1] \in DOMAIN secrets
      BY <1>0, <1>2, <2>2
    <3> QED
      BY <3>1, StepText
  <2> HIDE DEF last
  <2>4. h \in [0 .. k + 1 -> Seq(U)] /\ h[k + 1] = last /\ \A i \in 0 .. k : h[i] = g[i]
    BY <2>2, <2>3
  <2> HIDE DEF h
  <2>5. ASSUME NEW i \in 1 .. k + 1 PROVE h[i] = Step(h[i - 1], secrets, order[i])
    <3>1. CASE i = k + 1
      <4>1. i - 1 = k /\ k \in 0 .. k
        BY <3>1
      <4> QED
        BY <2>4, <3>1, <4>1 DEF last
    <3>2. CASE i # k + 1
      <4>1. i \in 1 .. k /\ i \in 0 .. k /\ i - 1 \in 0 .. k
        BY <3>2
      <4> QED
        BY <2>2, <2>4, <4>1
    <3> QED
      BY <3>1, <3>2
  <2>6. h[0] = text
    BY <2>2, <2>4
  <2>7. Walked(h, text, secrets, order, k + 1, U)
    BY <2>4, <2>5, <2>6 DEF Walked
  <2> QED
    BY <2>7
<1>3. n \in S
  <2> HIDE DEF S
  <2> QED
    BY <1>0, <1>1, <1>2, Reaches
<1> QED
  BY <1>0, <1>3

\* scrub returns the last of them.
LEMMA ScrubWalked ==
    ASSUME NEW secrets, NEW order, NEW n, NEW Lt, NEW U, Scrubs(secrets, order, n, Lt, U),
           NEW text \in Seq(U)
    PROVE  \E W : Walked(W, text, secrets, order, n, U) /\ Scrub(text, secrets, order) = W[n]
<1>0. n \in Nat /\ \A i \in 1 .. n : order[i] \in DOMAIN secrets
  BY DEF Scrubs
<1>1. PICK W : Walked(W, text, secrets, order, n, U)
  BY WalkExists
<1>2. /\ W \in [0 .. n -> Seq(U)] /\ W[0] = text
      /\ \A i \in 1 .. n : W[i] = Step(W[i - 1], secrets, order[i])
  BY <1>1 DEF Walked
<1>3. Len(order) = n
  BY IsASeqFunction DEF Scrubs
<1> DEFINE body(f) == [i \in 0 .. n |-> IF i = 0 THEN text ELSE Step(f[i - 1], secrets, order[i])]
           After == CHOOSE f : f = body(f)
<1>4. Scrub(text, secrets, order) = After[n]
  BY <1>3 DEF Scrub, Step
<1>5. W = body(W)
  <2>1. ASSUME NEW i \in 0 .. n
        PROVE  W[i] = IF i = 0 THEN text ELSE Step(W[i - 1], secrets, order[i])
    <3>1. CASE i = 0
      BY <1>2, <3>1
    <3>2. CASE i # 0
      <4>1. i \in 1 .. n
        BY <3>2
      <4> QED
        BY <1>2, <3>2, <4>1
    <3> QED
      BY <3>1, <3>2
  <2>2. W = [i \in 0 .. n |-> W[i]]
    BY <1>2
  <2> QED
    BY <2>1, <2>2
<1>6. After = body(After)
  <2> HIDE DEF body
  <2> QED
    BY <1>5
<1> HIDE DEF After
<1>7. After[0] = text /\ \A i \in 1 .. n : After[i] = Step(After[i - 1], secrets, order[i])
  <2>1. 0 \in 0 .. n /\ \A i \in 1 .. n : i \in 0 .. n /\ i # 0
    BY <1>0
  <2> QED
    BY <1>6, <2>1
<1> HIDE DEF body
<1> DEFINE S == {k \in Nat : k <= n => After[k] = W[k]}
<1>8. 0 \in S
  BY <1>2, <1>7
<1>9. ASSUME NEW k \in Nat, k < n, k \in S PROVE k + 1 \in S
  <2>1. k + 1 \in 1 .. n /\ (k + 1) - 1 = k /\ After[k] = W[k]
    BY <1>0, <1>9
  <2>2. After[k + 1] = Step(After[(k + 1) - 1], secrets, order[k + 1])
        /\ W[k + 1] = Step(W[(k + 1) - 1], secrets, order[k + 1])
    BY <1>2, <1>7, <2>1
  <2>3. After[k + 1] = W[k + 1]
    BY <2>1, <2>2
  <2> QED
    BY <2>3
<1>10. n \in S
  <2> HIDE DEF S
  <2> QED
    BY <1>0, <1>8, <1>9, Reaches
<1>11. After[n] = W[n]
  BY <1>0, <1>10
<1> QED
  BY <1>1, <1>4, <1>11

\* A value replaced does not come back.
LEMMA ScrubbedAway ==
    ASSUME NEW secrets, NEW order, NEW n, NEW Lt, NEW U, Scrubs(secrets, order, n, Lt, U),
           NEW text, NEW W, Walked(W, text, secrets, order, n, U), NEW p \in 1 .. n
    PROVE  Absent(secrets[order[p]], W[n])
<1> DEFINE w == secrets[order[p]]
           S == {d \in Nat : p + d <= n => Absent(w, W[p + d])}
<1>0. n \in Nat /\ \A i \in 1 .. n : order[i] \in DOMAIN secrets
  BY DEF Scrubs
<1>1. w \in Seq(Lt) /\ Len(w) >= 1
  BY <1>0 DEF Scrubs
<1> HIDE DEF w
<1>2. ASSUME NEW i \in 1 .. n, w = secrets[order[i]] \/ Absent(w, W[i - 1])
      PROVE  Absent(w, W[i])
  <2> DEFINE m == order[i]
  <2>1. m \in DOMAIN secrets /\ W[i - 1] \in Seq(U) /\ W[i] = Step(W[i - 1], secrets, m)
    BY <1>0 DEF Walked
  <2>2. /\ secrets[m] \in Seq(Lt) /\ Len(secrets[m]) >= 1 /\ Lt \subseteq U
        /\ Placeholder(m) \in U /\ Placeholder(m) \notin Lt
    BY <2>1 DEF Scrubs
  <2>3. secrets[m] \in Seq(U)
    BY <2>2, Wider
  <2>4. w = secrets[m] \/ Absent(w, W[i - 1])
    BY <1>2
  <2> HIDE DEF m
  <2>5. Absent(w, Replaced(W[i - 1], secrets[m], Placeholder(m)))
    BY <1>1, <2>1, <2>2, <2>3, <2>4, ReplacedAbsent
  <2> QED
    BY <2>1, <2>5 DEF Step
<1>3. 0 \in S
  <2>1. p + 0 = p
    BY <1>0
  <2>2. Absent(w, W[p])
    BY <1>2 DEF w
  <2> QED
    BY <2>1, <2>2
<1>4. ASSUME NEW d \in Nat, d < n - p, d \in S PROVE d + 1 \in S
  <2>1. p + (d + 1) \in 1 .. n /\ (p + (d + 1)) - 1 = p + d /\ p + d <= n
    BY <1>0, <1>4
  <2>2. Absent(w, W[(p + (d + 1)) - 1])
    BY <1>4, <2>1
  <2>3. Absent(w, W[p + (d + 1)])
    BY <1>2, <2>1, <2>2
  <2> QED
    BY <2>3
<1>5. n - p \in S
  <2>1. n - p \in Nat
    BY <1>0
  <2> HIDE DEF S
  <2> QED
    BY <2>1, <1>3, <1>4, Reaches
<1>6. p + (n - p) = n
  BY <1>0
<1> QED
  BY <1>0, <1>5, <1>6 DEF w

\* Substituting gives the same after every secret.
LEMMA ScrubbedBack ==
    ASSUME NEW secrets, NEW order, NEW n, NEW Lt, NEW U, Scrubs(secrets, order, n, Lt, U),
           NEW text, NEW W, Walked(W, text, secrets, order, n, U),
           \A c \in U : ValueOf(c, secrets) \in Seq(U),
           \A c \in Lt : ValueOf(c, secrets) = <<c>>,
           \A m \in DOMAIN secrets : ValueOf(Placeholder(m), secrets) = secrets[m]
    PROVE  Substitute(W[n], secrets) = Substitute(text, secrets)
<1> DEFINE S == {k \in Nat : k <= n => Substitute(W[k], secrets) = Substitute(text, secrets)}
<1>0. n \in Nat /\ \A i \in 1 .. n : order[i] \in DOMAIN secrets
  BY DEF Scrubs
<1>1. 0 \in S
  BY DEF Walked
<1>2. ASSUME NEW k \in Nat, k < n, k \in S PROVE k + 1 \in S
  <2> DEFINE m == order[k + 1]
  <2>1. k + 1 \in 1 .. n /\ (k + 1) - 1 = k /\ k \in 0 .. n
    BY <1>0, <1>2
  <2>2. m \in DOMAIN secrets /\ W[k] \in Seq(U) /\ W[k + 1] = Step(W[k], secrets, m)
    <3>1. W[k + 1] = Step(W[(k + 1) - 1], secrets, m)
      BY <2>1 DEF Walked
    <3>2. m \in DOMAIN secrets /\ W[k] \in Seq(U)
      BY <1>0, <2>1 DEF Walked
    <3> QED
      BY <2>1, <3>1, <3>2
  <2>3. /\ secrets[m] \in Seq(Lt) /\ Len(secrets[m]) >= 1 /\ Lt \subseteq U
        /\ Placeholder(m) \in U
    BY <2>2 DEF Scrubs
  <2>4. secrets[m] \in Seq(U) /\ ValueOf(Placeholder(m), secrets) = secrets[m]
    BY <2>2, <2>3, Wider
  <2>5. \A j \in 1 .. Len(secrets[m]) : ValueOf(secrets[m][j], secrets) = <<secrets[m][j]>>
    <3>1. \A j \in 1 .. Len(secrets[m]) : secrets[m][j] \in Lt
      BY <2>3
    <3> QED
      BY <3>1
  <2> HIDE DEF m
  <2>6. Substitute(Replaced(W[k], secrets[m], Placeholder(m)), secrets) = Substitute(W[k], secrets)
    <3>1. PICK v \in Seq(U) : v = secrets[m]
      BY <2>4
    <3>2. Len(v) >= 1 /\ \A j \in 1 .. Len(v) : ValueOf(v[j], secrets) = <<v[j]>>
      BY <2>3, <2>5, <3>1
    <3> QED
      BY <2>2, <2>3, <2>4, <3>1, <3>2, SubstituteKept
  <2>7. Substitute(W[k + 1], secrets) = Substitute(text, secrets)
    BY <1>0, <1>2, <2>2, <2>6 DEF Step
  <2> QED
    BY <2>7
<1>3. n \in S
  <2> HIDE DEF S
  <2> QED
    BY <1>0, <1>1, <1>2, Reaches
<1> QED
  BY <1>0, <1>3

\* A longer value, or another one of the same length, does not occur in a text.
LEMMA TooLong ==
    ASSUME NEW Lt, NEW v \in Seq(Lt), NEW w \in Seq(Lt), Len(w) >= 1, Len(w) >= Len(v), w # v
    PROVE  Absent(w, v)
<1>0. Len(v) \in Nat /\ Len(w) \in Nat
  OBVIOUS
<1>1. ASSUME NEW i \in 1 .. Len(v), Occurs(v, w, i) PROVE FALSE
  <2>1. i + Len(w) - 1 <= Len(v) /\ \A j \in 1 .. Len(w) : v[i + j - 1] = w[j]
    BY <1>1 DEF Occurs
  <2>2. i = 1 /\ Len(w) = Len(v)
    BY <1>0, <2>1
  <2>3. \A j \in 1 .. Len(w) : v[j] = w[j]
    <3>1. \A j \in 1 .. Len(w) : 1 + j - 1 = j
      BY <1>0
    <3> QED
      BY <2>1, <2>2, <3>1
  <2>4. w = v
    BY <2>2, <2>3, SeqEqual
  <2> QED
    BY <2>4
<1> QED
  BY <1>1 DEF Absent

\* No value occurs in a placeholder.
LEMMA NotInPlaceholder ==
    ASSUME NEW Lt, NEW P, P \notin Lt, NEW w \in Seq(Lt), Len(w) >= 1
    PROVE  Absent(w, <<P>>)
<1> DEFINE s == <<P>>
<1>1. Len(s) = 1 /\ s[1] = P
  OBVIOUS
<1> HIDE DEF s
<1>2. ASSUME NEW i \in 1 .. Len(s), Occurs(s, w, i) PROVE FALSE
  <2>1. i = 1 /\ 1 \in 1 .. Len(w) /\ w[1] \in Lt
    BY <1>1
  <2>2. s[1 + 1 - 1] = w[1]
    BY <1>2, <2>1 DEF Occurs
  <2> QED
    BY <1>1, <2>1, <2>2
<1>3. Absent(w, s)
  BY <1>2 DEF Absent
<1> QED
  BY <1>3 DEF s

\* A text that is a secret's value becomes the placeholder of one with that value.
LEMMA ScrubbedWhole ==
    ASSUME NEW secrets, NEW order, NEW n, NEW Lt, NEW U, Scrubs(secrets, order, n, Lt, U),
           NEW text \in Seq(Lt), NEW W, Walked(W, text, secrets, order, n, U),
           NEW q \in 1 .. n, secrets[order[q]] = text,
           \A i, j \in 1 .. n : i < j => Len(secrets[order[i]]) >= Len(secrets[order[j]])
    PROVE  \E m \in DOMAIN secrets : secrets[m] = text /\ W[n] = <<Placeholder(m)>>
<1>0. n \in Nat /\ \A i \in 1 .. n : order[i] \in DOMAIN secrets
  BY DEF Scrubs
<1>v. \A i \in 1 .. n : /\ secrets[order[i]] \in Seq(Lt) /\ Len(secrets[order[i]]) >= 1
                        /\ secrets[order[i]] \in Seq(U)
                        /\ Placeholder(order[i]) \in U /\ Placeholder(order[i]) \notin Lt
  <2>1. ASSUME NEW i \in 1 .. n
        PROVE  /\ secrets[order[i]] \in Seq(Lt) /\ Len(secrets[order[i]]) >= 1
               /\ Placeholder(order[i]) \in U /\ Placeholder(order[i]) \notin Lt /\ Lt \subseteq U
    BY <1>0 DEF Scrubs
  <2> QED
    BY <2>1, Wider
<1> DEFINE Alike == {i \in 1 .. n : secrets[order[i]] = text}
<1>1. PICK p \in Alike : \A y \in Alike : p <= y
  <2>1. Alike \in SUBSET Nat /\ q \in Alike
    OBVIOUS
  <2> HIDE DEF Alike
  <2> QED
    BY <2>1, LeastExists
<1>2. p \in 1 .. n /\ secrets[order[p]] = text /\ \A i \in 1 .. n : secrets[order[i]] = text => p <= i
  BY <1>1
<1> HIDE DEF Alike
<1>w. /\ \A k \in 0 .. n : W[k] \in Seq(U)
      /\ W[0] = text /\ \A i \in 1 .. n : W[i] = Step(W[i - 1], secrets, order[i])
  BY DEF Walked
<1>s. ASSUME NEW i \in 1 .. n, Absent(secrets[order[i]], W[i - 1]) PROVE W[i] = W[i - 1]
  <2>1. W[i - 1] \in Seq(U) /\ W[i] = Step(W[i - 1], secrets, order[i])
    BY <1>0, <1>w
  <2>2. Replaced(W[i - 1], secrets[order[i]], Placeholder(order[i])) = W[i - 1]
    BY <1>s, <1>v, <2>1, ReplacedNothing
  <2> QED
    BY <2>1, <2>2 DEF Step
<1> DEFINE S == {k \in Nat : k <= p - 1 => W[k] = text}
<1>3. 0 \in S
  BY <1>w
<1>4. ASSUME NEW k \in Nat, k < p - 1, k \in S PROVE k + 1 \in S
  <2>1. k + 1 \in 1 .. n /\ k + 1 < p /\ (k + 1) - 1 = k /\ W[k] = text
    BY <1>0, <1>2, <1>4
  <2>2. secrets[order[k + 1]] # text /\ Len(secrets[order[k + 1]]) >= Len(text)
    BY <1>2, <2>1
  <2>3. Absent(secrets[order[k + 1]], text)
    BY <1>v, <2>1, <2>2, TooLong
  <2>4. W[k + 1] = text
    <3>1. Absent(secrets[order[k + 1]], W[(k + 1) - 1])
      BY <2>1, <2>3
    <3> QED
      BY <1>s, <2>1, <3>1
  <2> QED
    BY <2>4
<1>5. W[p - 1] = text
  <2>1. p - 1 \in Nat
    BY <1>2
  <2>2. p - 1 \in S
    <3> HIDE DEF S
    <3> QED
      BY <2>1, <1>3, <1>4, Reaches
  <2> QED
    BY <2>1, <2>2
<1> HIDE DEF S
<1> DEFINE P == Placeholder(order[p])
           whole == <<P>>
<1>6. W[p] = whole
  <2>1. W[p] = Replaced(text, text, P)
    BY <1>2, <1>5, <1>w DEF Step
  <2>2. text \in Seq(U) /\ Len(text) >= 1 /\ P \in U
    BY <1>2, <1>v
  <2> HIDE DEF P
  <2>3. Replaced(text, text, P) = <<P>>
    BY <2>2, ReplacedWhole
  <2> QED
    BY <2>1, <2>3
<1>7. \A i \in 1 .. n : Absent(secrets[order[i]], whole)
  <2>1. P \notin Lt
    BY <1>2, <1>v
  <2> HIDE DEF P
  <2> QED
    BY <1>v, <2>1, NotInPlaceholder
<1> HIDE DEF whole
<1> DEFINE T == {d \in Nat : p + d <= n => W[p + d] = whole}
<1>8. 0 \in T
  <2>1. p + 0 = p
    BY <1>2
  <2> QED
    BY <1>6, <2>1
<1>9. ASSUME NEW d \in Nat, d < n - p, d \in T PROVE d + 1 \in T
  <2>1. p + (d + 1) \in 1 .. n /\ (p + (d + 1)) - 1 = p + d /\ p + d <= n
    BY <1>0, <1>2, <1>9
  <2>2. W[(p + (d + 1)) - 1] = whole
    BY <1>9, <2>1
  <2>3. W[p + (d + 1)] = whole
    BY <1>7, <1>s, <2>1, <2>2
  <2> QED
    BY <2>3
<1>10. n - p \in Nat /\ p + (n - p) = n
  BY <1>0, <1>2
<1>11. n - p \in T
  <2> HIDE DEF T
  <2> QED
    BY <1>10, <1>8, <1>9, Reaches
<1>12. W[n] = whole
  BY <1>0, <1>10, <1>11
<1> QED
  BY <1>0, <1>2, <1>12 DEF whole

\* Every secret has its place in the order.
LEMMA OrderComplete ==
    ASSUME NEW secrets, IsFiniteSet(DOMAIN secrets), NEW order \in ScrubOrders(secrets)
    PROVE  /\ Cardinality(DOMAIN secrets) \in Nat
           /\ order \in [1 .. Cardinality(DOMAIN secrets) -> DOMAIN secrets]
           /\ \A m \in DOMAIN secrets : \E i \in 1 .. Cardinality(DOMAIN secrets) : order[i] = m
           /\ \A i, j \in 1 .. Cardinality(DOMAIN secrets) :
                 i < j => Len(secrets[order[i]]) >= Len(secrets[order[j]])
<1> DEFINE N == Cardinality(DOMAIN secrets)
           D == DOMAIN secrets
<1>1. N \in Nat
  BY FS_CardinalityType
<1>2. /\ order \in [1 .. N -> D]
      /\ \A i, j \in 1 .. N : i < j => /\ order[i] # order[j]
                                      /\ Len(secrets[order[i]]) >= Len(secrets[order[j]])
  BY DEF ScrubOrders
<1> HIDE DEF N, D
<1>3. order \in Injection(1 .. N, D)
  <2>1. ASSUME NEW i \in 1 .. N, NEW j \in 1 .. N, order[i] = order[j] PROVE i = j
    BY <1>1, <1>2, <2>1
  <2>2. DOMAIN order = 1 .. N
    BY <1>2
  <2> QED
    BY <1>2, <2>1, <2>2 DEF Injection, IsInjective
<1>4. IsFiniteSet(1 .. N) /\ Cardinality(1 .. N) = N
  <2>1. Cardinality(1 .. N) = IF 1 > N THEN 0 ELSE N - 1 + 1
    BY <1>1, FS_Interval
  <2>2. IsFiniteSet(1 .. N)
    BY <1>1, FS_Interval
  <2> QED
    BY <1>1, <2>1, <2>2
<1>5. order \in Surjection(1 .. N, D)
  <2>1. IsFiniteSet(D) /\ Cardinality(1 .. N) = Cardinality(D)
    BY <1>4 DEF N, D
  <2> QED
    BY <1>3, <2>1, FS_Injection
<1>6. \A m \in D : \E i \in 1 .. N : order[i] = m
  BY <1>5 DEF Surjection
<1> QED
  BY <1>1, <1>2, <1>6 DEF N, D

\* Any number of secrets of any values, none of them empty (SecretRegistry refuses an
\* empty one), and a text without placeholders.
SecretInput(Lt) ==
    /\ IsFiniteSet(DOMAIN case.secrets)
    /\ \A m \in DOMAIN case.secrets : case.secrets[m] \in Seq(Lt) \ {<<>>}
    /\ case.text \in Seq(Lt) /\ \A c \in Lt : "secret" \notin DOMAIN c
    /\ case.order \in ScrubOrders(case.secrets)

\* scrub leaves no value, keeps a text that is a value whole, and loses nothing.
LEMMA AlwaysScrubbedClean ==
    ASSUME NEW Lt, case.on = "secret" => SecretInput(Lt)
    PROVE  ScrubbedClean
<1> SUFFICES ASSUME case.on = "secret" PROVE ScrubbedClean
  BY DEF ScrubbedClean
<1>1. PICK secrets, order, text :
        secrets = case.secrets /\ order = case.order /\ text = case.text
  OBVIOUS
<1>2. /\ IsFiniteSet(DOMAIN secrets)
      /\ \A m \in DOMAIN secrets : secrets[m] \in Seq(Lt) /\ secrets[m] # <<>>
      /\ text \in Seq(Lt) /\ \A c \in Lt : "secret" \notin DOMAIN c
      /\ order \in ScrubOrders(secrets)
  BY <1>1 DEF SecretInput
<1>3. PICK N : N = Cardinality(DOMAIN secrets)
  OBVIOUS
<1>4. /\ N \in Nat /\ order \in [1 .. N -> DOMAIN secrets]
      /\ \A m \in DOMAIN secrets : \E i \in 1 .. N : order[i] = m
      /\ \A i, j \in 1 .. N : i < j => Len(secrets[order[i]]) >= Len(secrets[order[j]])
  BY <1>2, <1>3, OrderComplete
<1> DEFINE U == Lt \cup {Placeholder(m) : m \in DOMAIN secrets}
           V == U \cup {0}
<1>5. \A m \in DOMAIN secrets : Len(secrets[m]) >= 1
  <2>1. ASSUME NEW m \in DOMAIN secrets PROVE Len(secrets[m]) >= 1
    <3>1. PICK v \in Seq(Lt) : v = secrets[m] /\ v # <<>>
      BY <1>2
    <3>2. Len(v) \in Nat /\ Len(v) # 0
      BY <3>1, EmptySeq
    <3> QED
      BY <3>1, <3>2
  <2> QED
    BY <2>1
<1>6. \A m \in DOMAIN secrets : Placeholder(m) \in U /\ Placeholder(m) \notin Lt
  <2>1. \A m : "secret" \in DOMAIN Placeholder(m)
    BY DEF Placeholder
  <2> QED
    BY <1>2, <2>1
<1>7. Lt \subseteq U /\ U \subseteq V /\ 0 \in V
  OBVIOUS
<1>8. /\ \A c \in Lt : ValueOf(c, secrets) = <<c>>
      /\ \A m \in DOMAIN secrets : ValueOf(Placeholder(m), secrets) = secrets[m]
  <2>1. \A c \in Lt : ValueOf(c, secrets) = <<c>>
    BY <1>2 DEF ValueOf
  <2>2. \A m : "secret" \in DOMAIN Placeholder(m) /\ Placeholder(m).secret = m
    BY DEF Placeholder
  <2>3. \A m \in DOMAIN secrets : ValueOf(Placeholder(m), secrets) = secrets[m]
    BY <2>2 DEF ValueOf
  <2> QED
    BY <2>1, <2>3
<1>9. \A c \in U : ValueOf(c, secrets) \in Seq(U)
  <2>1. ASSUME NEW c \in Lt PROVE ValueOf(c, secrets) \in Seq(U)
    <3>1. ValueOf(c, secrets) = <<c>> /\ c \in U
      BY <1>7, <1>8
    <3> HIDE DEF U
    <3>2. <<c>> \in Seq(U)
      BY <3>1
    <3> QED
      BY <3>1, <3>2
  <2>2. ASSUME NEW m \in DOMAIN secrets PROVE ValueOf(Placeholder(m), secrets) \in Seq(U)
    <3> HIDE DEF U
    <3>1. secrets[m] \in Seq(U)
      BY <1>2, <1>7, Wider
    <3> QED
      BY <1>8, <3>1
  <2>3. \A c \in U : c \in Lt \/ \E m \in DOMAIN secrets : c = Placeholder(m)
    OBVIOUS
  <2> HIDE DEF U
  <2> QED
    BY <2>1, <2>2, <2>3
<1> HIDE DEF U, V
<1>10. Scrubs(secrets, order, N, Lt, U)
  BY <1>2, <1>4, <1>5, <1>6, <1>7 DEF Scrubs
<1>11. PICK W : Walked(W, text, secrets, order, N, U) /\ Scrub(text, secrets, order) = W[N]
  <2>1. text \in Seq(U)
    BY <1>2, <1>7, Wider
  <2> QED
    BY <1>10, <2>1, ScrubWalked
<1>12. PICK out : out = Scrub(text, secrets, order)
  OBVIOUS
<1>13. ASSUME NEW n \in DOMAIN secrets PROVE Replaced(out, secrets[n], 0) = out
  <2>1. PICK p \in 1 .. N : order[p] = n
    BY <1>4
  <2>2. Absent(secrets[n], out)
    <3>1. Absent(secrets[order[p]], W[N])
      BY <1>10, <1>11, ScrubbedAway
    <3> QED
      BY <1>11, <1>12, <2>1, <3>1
  <2>3. W[N] \in Seq(U)
    BY <1>4, <1>11 DEF Walked
  <2>4. out \in Seq(V)
    BY <1>7, <1>11, <1>12, <2>3, Wider
  <2>5. secrets[n] \in Seq(V) /\ Len(secrets[n]) >= 1
    <3>1. Lt \subseteq V
      BY <1>7
    <3> QED
      BY <1>2, <1>5, <3>1, Wider
  <2> QED
    BY <1>7, <2>2, <2>4, <2>5, ReplacedNothing
<1>14. ASSUME NEW n \in DOMAIN secrets
       PROVE  \E m \in DOMAIN secrets : /\ secrets[m] = secrets[n]
                                        /\ Scrub(secrets[n], secrets, order) = <<Placeholder(m)>>
  <2>1. PICK v \in Seq(Lt) : v = secrets[n]
    BY <1>2
  <2>2. v \in Seq(U)
    BY <1>7, <2>1, Wider
  <2>3. PICK X : Walked(X, v, secrets, order, N, U) /\ Scrub(v, secrets, order) = X[N]
    BY <1>10, <2>2, ScrubWalked
  <2>4. PICK q \in 1 .. N : secrets[order[q]] = v
    <3>1. PICK q \in 1 .. N : order[q] = n
      BY <1>4
    <3> QED
      BY <2>1, <3>1
  <2>5. \A i, j \in 1 .. N : i < j => Len(secrets[order[i]]) >= Len(secrets[order[j]])
    BY <1>4
  <2>6. PICK m \in DOMAIN secrets : secrets[m] = v /\ X[N] = <<Placeholder(m)>>
    BY <1>10, <2>3, <2>4, <2>5, ScrubbedWhole
  <2>7. Scrub(secrets[n], secrets, order) = <<Placeholder(m)>> /\ secrets[m] = secrets[n]
    BY <2>1, <2>3, <2>6
  <2> QED
    BY <2>7
<1>15. Substitute(out, secrets) = text
  <2>1. Substitute(W[N], secrets) = Substitute(text, secrets)
    BY <1>8, <1>9, <1>10, <1>11, ScrubbedBack
  <2>2. text \in Seq(U)
    BY <1>2, <1>7, Wider
  <2>3. \A j \in 1 .. Len(text) : ValueOf(text[j], secrets) = <<text[j]>>
    <3>1. \A j \in 1 .. Len(text) : text[j] \in Lt
      BY <1>2
    <3> QED
      BY <1>8, <3>1
  <2>4. Substitute(text, secrets) = text
    BY <1>9, <2>2, <2>3, SubstitutePlain
  <2> QED
    BY <1>11, <1>12, <2>1, <2>4
<1> QED
  BY <1>1, <1>12, <1>13, <1>14, <1>15, Zenon DEF ScrubbedClean

-----------------------------------------------------------------------------
(* Access: the whole                                                       *)

\* Whatever is presented, sent, asked for or scrubbed: only the owner of a credential
\* gets in, each attempt is audited, the middleware lets nobody else pass, a webhook is
\* taken only if its source signed it and fires once, a stream shows its own principal
\* alone, and no secret's value leaves scrub while substitute gives the text back
\* (Authenticator, auth_middleware, webhook and replay endpoints, resolve_caller,
\* SecretRegistry).
THEOREM AccessAlwaysGuarded ==
    ASSUME NEW T, NEW Lt,
           case.on = "auth" => AuthInput(T),
           case.on = "webhook" => WebhookInput(T),
           case.on = "stream" => case.auth.consumer # -1,
           case.on = "secret" => SecretInput(Lt)
    PROVE  AccessGuarded
BY AuthenticAlwaysSound, AuthenticAlwaysComplete, WallAlwaysHolds, WebhooksAlwaysAuthentic,
   TenantsAlwaysApart, AlwaysScrubbedClean DEF AccessGuarded

-----------------------------------------------------------------------------
(* StoragePairs: rows that are kept                                        *)

\* Induction over sequences, for a set of them.
LEMMA SeqReaches ==
    ASSUME NEW S, NEW Z, <<>> \in Z,
           \A s \in Seq(S), e \in S : s \in Z => Append(s, e) \in Z, NEW t \in Seq(S)
    PROVE  t \in Z
<1> DEFINE N == {n \in Nat : \A s \in Seq(S) : Len(s) = n => s \in Z}
<1>1. 0 \in N
  <2>1. ASSUME NEW s \in Seq(S), Len(s) = 0 PROVE s \in Z
    <3>1. s = <<>>
      BY <2>1, EmptySeq
    <3> QED
      BY <3>1
  <2> QED
    BY <2>1
<1>2. ASSUME NEW k \in Nat, k \in N PROVE k + 1 \in N
  <2>1. ASSUME NEW s \in Seq(S), Len(s) = k + 1 PROVE s \in Z
    <3>1. s # <<>>
      BY <2>1, EmptySeq
    <3>2. PICK u \in Seq(S), e \in S : s = Append(u, e)
      BY <3>1, SequenceEmptyOrAppend
    <3>3. Len(u) \in Nat /\ Len(s) = Len(u) + 1
      BY <3>2, AppendProperties
    <3>4. Len(u) = k
      BY <2>1, <3>3
    <3>5. u \in Z
      BY <1>2, <3>4
    <3> QED
      BY <3>2, <3>5
  <2> QED
    BY <2>1
<1>3. Len(t) \in Nat
  OBVIOUS
<1>4. Len(t) \in N
  <2> HIDE DEF N
  <2> QED
    BY <1>1, <1>2, <1>3, Reaches
<1> QED
  BY <1>4

\* What has been kept of the first rows.
Keeping(G, s, R, S) ==
    /\ G \in [0 .. Len(s) -> Seq(S)] /\ G[0] = <<>>
    /\ \A i \in 1 .. Len(s) : G[i] = IF s[i] \in R THEN Append(G[i - 1], s[i]) ELSE G[i - 1]

\* It exists.
LEMMA KeepingExists ==
    ASSUME NEW S, NEW R, NEW s \in Seq(S)
    PROVE  \E G : Keeping(G, s, R, S)
<1> DEFINE Partly(g, k) ==
             /\ g \in [0 .. k -> Seq(S)] /\ g[0] = <<>>
             /\ \A i \in 1 .. k : g[i] = IF s[i] \in R THEN Append(g[i - 1], s[i]) ELSE g[i - 1]
           N == {k \in Nat : k <= Len(s) => \E g : Partly(g, k)}
<1>0. Len(s) \in Nat /\ \A i \in 1 .. Len(s) : s[i] \in S
  OBVIOUS
<1>1. 0 \in N
  <2> DEFINE g == [i \in 0 .. 0 |-> <<>>]
  <2>1. g \in [0 .. 0 -> Seq(S)] /\ g[0] = <<>> /\ 1 .. 0 = {}
    BY EmptySeq
  <2> HIDE DEF g
  <2>2. Partly(g, 0)
    BY <2>1
  <2> HIDE DEF Partly
  <2> QED
    BY <2>2
<1>2. ASSUME NEW k \in Nat, k < Len(s), k \in N PROVE k + 1 \in N
  <2>1. PICK g : Partly(g, k)
    <3> HIDE DEF Partly
    <3> QED
      BY <1>0, <1>2
  <2>2. /\ g \in [0 .. k -> Seq(S)] /\ g[0] = <<>>
        /\ \A i \in 1 .. k : g[i] = IF s[i] \in R THEN Append(g[i - 1], s[i]) ELSE g[i - 1]
    BY <2>1
  <2> DEFINE last == IF s[k + 1] \in R THEN Append(g[k], s[k + 1]) ELSE g[k]
             h == [i \in 0 .. k + 1 |-> IF i = k + 1 THEN last ELSE g[i]]
  <2>3. last \in Seq(S)
    <3>1. g[k] \in Seq(S) /\ s[k + 1] \in S
      BY <1>0, <1>2, <2>2
    <3>2. Append(g[k], s[k + 1]) \in Seq(S)
      BY <3>1, AppendProperties
    <3> QED
      BY <3>1, <3>2
  <2> HIDE DEF last
  <2>4. h \in [0 .. k + 1 -> Seq(S)] /\ h[k + 1] = last /\ \A i \in 0 .. k : h[i] = g[i]
    BY <2>2, <2>3
  <2> HIDE DEF h
  <2>5. ASSUME NEW i \in 1 .. k + 1
        PROVE  h[i] = IF s[i] \in R THEN Append(h[i - 1], s[i]) ELSE h[i - 1]
    <3>1. CASE i = k + 1
      <4>1. i - 1 = k /\ k \in 0 .. k
        BY <3>1
      <4> QED
        BY <2>4, <3>1, <4>1 DEF last
    <3>2. CASE i # k + 1
      <4>1. i \in 1 .. k /\ i \in 0 .. k /\ i - 1 \in 0 .. k
        BY <3>2
      <4> QED
        BY <2>2, <2>4, <4>1
    <3> QED
      BY <3>1, <3>2
  <2>6. h[0] = <<>>
    BY <2>2, <2>4
  <2>7. Partly(h, k + 1)
    BY <2>4, <2>5, <2>6
  <2> HIDE DEF Partly
  <2> QED
    BY <2>7
<1>3. Len(s) \in N
  <2> HIDE DEF N
  <2> QED
    BY <1>0, <1>1, <1>2, Reaches
<1>4. PICK g : Partly(g, Len(s))
  <2> HIDE DEF Partly
  <2> QED
    BY <1>0, <1>3
<1>5. Keeping(g, s, R, S)
  BY <1>4 DEF Keeping
<1> QED
  BY <1>5

\* What is kept of all rows.
LEMMA KeptKeeping ==
    ASSUME NEW S, NEW R, NEW s \in Seq(S)
    PROVE  \E G : Keeping(G, s, R, S) /\ Kept(s, R) = G[Len(s)]
<1>0. Len(s) \in Nat
  OBVIOUS
<1>1. PICK G : Keeping(G, s, R, S)
  BY KeepingExists
<1>2. /\ G \in [0 .. Len(s) -> Seq(S)] /\ G[0] = <<>>
      /\ \A i \in 1 .. Len(s) : G[i] = IF s[i] \in R THEN Append(G[i - 1], s[i]) ELSE G[i - 1]
  BY <1>1 DEF Keeping
<1> DEFINE n == Len(s)
           body(f) == [i \in 0 .. n |-> IF i = 0 THEN <<>>
                                        ELSE IF s[i] \in R THEN Append(f[i - 1], s[i]) ELSE f[i - 1]]
           To == CHOOSE f : f = body(f)
<1>4. Kept(s, R) = To[n]
  BY DEF Kept
<1> HIDE DEF n
<1>5. G = body(G)
  <2>1. ASSUME NEW i \in 0 .. n
        PROVE  G[i] = IF i = 0 THEN <<>>
                      ELSE IF s[i] \in R THEN Append(G[i - 1], s[i]) ELSE G[i - 1]
    <3>1. CASE i = 0
      BY <1>2, <3>1
    <3>2. CASE i # 0
      <4>1. i \in 1 .. Len(s)
        BY <1>0, <3>2 DEF n
      <4> QED
        BY <1>2, <3>2, <4>1
    <3> QED
      BY <3>1, <3>2
  <2>2. G = [i \in 0 .. n |-> G[i]]
    BY <1>2 DEF n
  <2> QED
    BY <2>1, <2>2
<1>6. To = body(To)
  <2> HIDE DEF body
  <2> QED
    BY <1>5
<1> HIDE DEF To
<1>7. /\ To[0] = <<>>
      /\ \A i \in 1 .. n : To[i] = IF s[i] \in R THEN Append(To[i - 1], s[i]) ELSE To[i - 1]
  <2>1. 0 \in 0 .. n /\ \A i \in 1 .. n : i \in 0 .. n /\ i # 0
    BY <1>0 DEF n
  <2> QED
    BY <1>6, <2>1
<1> HIDE DEF body
<1> DEFINE Z == {k \in Nat : k <= n => To[k] = G[k]}
<1>8. 0 \in Z
  BY <1>2, <1>7
<1>9. ASSUME NEW k \in Nat, k < n, k \in Z PROVE k + 1 \in Z
  <2>1. k + 1 \in 1 .. n /\ (k + 1) - 1 = k /\ To[k] = G[k]
    BY <1>0, <1>9 DEF n
  <2>2. To[k + 1] = IF s[k + 1] \in R THEN Append(To[k], s[k + 1]) ELSE To[k]
    BY <1>7, <2>1
  <2>3. G[k + 1] = IF s[k + 1] \in R THEN Append(G[k], s[k + 1]) ELSE G[k]
    BY <1>2, <2>1 DEF n
  <2>4. To[k + 1] = G[k + 1]
    BY <2>1, <2>2, <2>3
  <2> QED
    BY <2>4
<1>10. n \in Z
  <2> HIDE DEF Z
  <2> QED
    BY <1>0, <1>8, <1>9, Reaches DEF n
<1>11. To[n] = G[n]
  BY <1>0, <1>10 DEF n
<1> QED
  BY <1>1, <1>4, <1>11 DEF n

\* What is kept is a sequence of rows.
LEMMA KeptRows ==
    ASSUME NEW S, NEW R, NEW s \in Seq(S)
    PROVE  Kept(s, R) \in Seq(S)
<1>1. PICK G : Keeping(G, s, R, S) /\ Kept(s, R) = G[Len(s)]
  BY KeptKeeping
<1>2. Len(s) \in 0 .. Len(s)
  OBVIOUS
<1> QED
  BY <1>1, <1>2 DEF Keeping

\* Nothing is kept of nothing.
LEMMA KeptEmpty ==
    ASSUME NEW R PROVE Kept(<<>>, R) = <<>>
<1> DEFINE e == <<>>
<1>1. e \in Seq({}) /\ Len(e) = 0
  BY EmptySeq
<1> HIDE DEF e
<1>2. PICK G : Keeping(G, e, R, {}) /\ Kept(e, R) = G[Len(e)]
  BY <1>1, KeptKeeping
<1>3. Kept(e, R) = <<>>
  BY <1>1, <1>2 DEF Keeping
<1> QED
  BY <1>3 DEF e

\* One more row is kept or not.
LEMMA KeptAppend ==
    ASSUME NEW S, NEW R, NEW s \in Seq(S), NEW e \in S
    PROVE  Kept(Append(s, e), R) = IF e \in R THEN Append(Kept(s, R), e) ELSE Kept(s, R)
<1> DEFINE t == Append(s, e)
           n == Len(s)
<1>0. n \in Nat
  OBVIOUS
<1>1. t \in Seq(S) /\ Len(t) = n + 1 /\ t[n + 1] = e /\ \A i \in 1 .. n : t[i] = s[i]
  BY AppendProperties
<1> HIDE DEF t
<1>2. PICK G : Keeping(G, s, R, S) /\ Kept(s, R) = G[n]
  BY KeptKeeping
<1>3. PICK H : Keeping(H, t, R, S) /\ Kept(t, R) = H[n + 1]
  BY <1>1, KeptKeeping
<1>4. /\ G[0] = <<>>
      /\ \A i \in 1 .. n : G[i] = IF s[i] \in R THEN Append(G[i - 1], s[i]) ELSE G[i - 1]
  BY <1>2 DEF Keeping
<1>5. /\ H[0] = <<>>
      /\ \A i \in 1 .. n + 1 : H[i] = IF t[i] \in R THEN Append(H[i - 1], t[i]) ELSE H[i - 1]
  BY <1>1, <1>3 DEF Keeping
<1> HIDE DEF n
<1> DEFINE Z == {k \in Nat : k <= n => H[k] = G[k]}
<1>6. 0 \in Z
  BY <1>4, <1>5
<1>7. ASSUME NEW k \in Nat, k < n, k \in Z PROVE k + 1 \in Z
  <2>1. k + 1 \in 1 .. n /\ k + 1 \in 1 .. n + 1 /\ (k + 1) - 1 = k /\ H[k] = G[k]
    BY <1>0, <1>7
  <2>2. H[k + 1] = IF t[k + 1] \in R THEN Append(H[k], t[k + 1]) ELSE H[k]
    BY <1>5, <2>1
  <2>3. G[k + 1] = IF s[k + 1] \in R THEN Append(G[k], s[k + 1]) ELSE G[k]
    BY <1>4, <2>1
  <2>4. t[k + 1] = s[k + 1]
    BY <1>1, <2>1
  <2>5. H[k + 1] = G[k + 1]
    BY <2>1, <2>2, <2>3, <2>4
  <2> QED
    BY <2>5
<1>8. n \in Z
  <2> HIDE DEF Z
  <2> QED
    BY <1>0, <1>6, <1>7, Reaches
<1>9. H[n] = G[n]
  BY <1>0, <1>8
<1>10. H[n + 1] = IF e \in R THEN Append(H[n], e) ELSE H[n]
  <2>1. n + 1 \in 1 .. n + 1 /\ (n + 1) - 1 = n
    BY <1>0
  <2> QED
    BY <1>1, <1>5, <2>1
<1> QED
  BY <1>2, <1>3, <1>9, <1>10 DEF t

\* One more element.
LEMMA AppendSet ==
    ASSUME NEW S, NEW s \in Seq(S), NEW e \in S
    PROVE  ToSet(Append(s, e)) = ToSet(s) \cup {e}
<1> DEFINE t == Append(s, e)
<1>0. Len(s) \in Nat /\ DOMAIN s = 1 .. Len(s)
  BY LenProperties
<1>1. t \in Seq(S) /\ Len(t) = Len(s) + 1 /\ t[Len(s) + 1] = e /\ \A i \in 1 .. Len(s) : t[i] = s[i]
  BY AppendProperties
<1> HIDE DEF t
<1>2. DOMAIN t = 1 .. Len(s) + 1
  BY <1>1, LenProperties
<1>3. ASSUME NEW x \in ToSet(t) PROVE x \in ToSet(s) \cup {e}
  <2>1. PICK i \in 1 .. Len(s) + 1 : x = t[i]
    BY <1>2 DEF ToSet
  <2>2. CASE i = Len(s) + 1
    BY <1>1, <2>1, <2>2
  <2>3. CASE i # Len(s) + 1
    <3>1. i \in 1 .. Len(s)
      BY <1>0, <2>3
    <3> QED
      BY <1>0, <1>1, <2>1, <3>1 DEF ToSet
  <2> QED
    BY <2>2, <2>3
<1>4. ASSUME NEW x \in ToSet(s) PROVE x \in ToSet(t)
  <2>1. PICK i \in 1 .. Len(s) : x = s[i]
    BY <1>0 DEF ToSet
  <2>2. i \in 1 .. Len(s) + 1 /\ t[i] = x
    BY <1>0, <1>1, <2>1
  <2> QED
    BY <1>2, <2>2 DEF ToSet
<1>5. e \in ToSet(t)
  <2>1. Len(s) + 1 \in 1 .. Len(s) + 1
    BY <1>0
  <2> QED
    BY <1>1, <1>2, <2>1 DEF ToSet
<1> QED
  BY <1>3, <1>4, <1>5 DEF t

\* The elements of a sequence.
LEMMA SetParts ==
    ASSUME NEW S, NEW s \in Seq(S)
    PROVE  /\ ToSet(s) \subseteq S
           /\ ToSet(s) = {s[i] : i \in 1 .. Len(s)}
<1>1. DOMAIN s = 1 .. Len(s) /\ s \in [1 .. Len(s) -> S]
  BY LenProperties
<1> QED
  BY <1>1 DEF ToSet

\* No rows, no elements.
LEMMA EmptySet == ToSet(<<>>) = {}
BY DEF ToSet

\* The rows that are kept are those of the set.
LEMMA KeptSet ==
    ASSUME NEW S, NEW R, NEW s \in Seq(S)
    PROVE  ToSet(Kept(s, R)) = ToSet(s) \cap R
<1> DEFINE Z == {t \in Seq(S) : ToSet(Kept(t, R)) = ToSet(t) \cap R}
<1>1. <<>> \in Z
  BY KeptEmpty, EmptySet, EmptySeq
<1>2. ASSUME NEW t \in Seq(S), NEW e \in S, t \in Z PROVE Append(t, e) \in Z
  <2>1. ToSet(Kept(t, R)) = ToSet(t) \cap R
    BY <1>2
  <2>2. ToSet(Append(t, e)) = ToSet(t) \cup {e} /\ Append(t, e) \in Seq(S)
    BY AppendSet, AppendProperties
  <2>3. Kept(Append(t, e), R) = IF e \in R THEN Append(Kept(t, R), e) ELSE Kept(t, R)
    BY KeptAppend
  <2>4. ToSet(Append(Kept(t, R), e)) = ToSet(Kept(t, R)) \cup {e}
    BY KeptRows, AppendSet
  <2>5. ToSet(Kept(Append(t, e), R)) = ToSet(Append(t, e)) \cap R
    BY <2>1, <2>2, <2>3, <2>4
  <2> QED
    BY <2>2, <2>5
<1>3. s \in Z
  <2> HIDE DEF Z
  <2> QED
    BY <1>1, <1>2, SeqReaches
<1> QED
  BY <1>3

\* Keeping twice is keeping what is in both sets.
LEMMA KeptTwice ==
    ASSUME NEW S, NEW Q, NEW R, NEW s \in Seq(S)
    PROVE  Kept(Kept(s, Q), R) = Kept(s, Q \cap R)
<1> DEFINE Z == {t \in Seq(S) : Kept(Kept(t, Q), R) = Kept(t, Q \cap R)}
<1>1. <<>> \in Z
  BY KeptEmpty, EmptySeq
<1>2. ASSUME NEW t \in Seq(S), NEW e \in S, t \in Z PROVE Append(t, e) \in Z
  <2>1. Kept(Kept(t, Q), R) = Kept(t, Q \cap R) /\ Append(t, e) \in Seq(S)
    BY <1>2, AppendProperties
  <2>2. Kept(Append(t, e), Q) = IF e \in Q THEN Append(Kept(t, Q), e) ELSE Kept(t, Q)
    BY KeptAppend
  <2>3. Kept(Append(t, e), Q \cap R)
            = IF e \in Q \cap R THEN Append(Kept(t, Q \cap R), e) ELSE Kept(t, Q \cap R)
    BY KeptAppend
  <2>4. Kept(t, Q) \in Seq(S)
    BY KeptRows
  <2>5. Kept(Append(Kept(t, Q), e), R)
            = IF e \in R THEN Append(Kept(Kept(t, Q), R), e) ELSE Kept(Kept(t, Q), R)
    BY <2>4, KeptAppend
  <2>6. Kept(Kept(Append(t, e), Q), R) = Kept(Append(t, e), Q \cap R)
    <3>1. CASE e \in Q
      <4>1. Kept(Kept(Append(t, e), Q), R) = Kept(Append(Kept(t, Q), e), R)
        BY <2>2, <3>1
      <4>2. e \in Q \cap R <=> e \in R
        BY <3>1
      <4> QED
        BY <2>1, <2>3, <2>5, <4>1, <4>2
    <3>2. CASE e \notin Q
      <4>1. Kept(Append(t, e), Q) = Kept(t, Q) /\ Kept(Append(t, e), Q \cap R) = Kept(t, Q \cap R)
        BY <2>2, <2>3, <3>2
      <4> QED
        BY <2>1, <4>1
    <3> QED
      BY <3>1, <3>2
  <2> QED
    BY <2>1, <2>6
<1>3. s \in Z
  <2> HIDE DEF Z
  <2> QED
    BY <1>1, <1>2, SeqReaches
<1> QED
  BY <1>3

\* What is kept depends on the rows there are.
LEMMA KeptAlike ==
    ASSUME NEW S, NEW Q, NEW R, NEW s \in Seq(S), ToSet(s) \cap Q = ToSet(s) \cap R
    PROVE  Kept(s, Q) = Kept(s, R)
<1> DEFINE Z == {t \in Seq(S) : ToSet(t) \cap Q = ToSet(t) \cap R => Kept(t, Q) = Kept(t, R)}
<1>1. <<>> \in Z
  BY KeptEmpty, EmptySeq
<1>2. ASSUME NEW t \in Seq(S), NEW e \in S, t \in Z PROVE Append(t, e) \in Z
  <2>1. ToSet(Append(t, e)) = ToSet(t) \cup {e} /\ Append(t, e) \in Seq(S)
    BY AppendSet, AppendProperties
  <2>2. Kept(Append(t, e), Q) = IF e \in Q THEN Append(Kept(t, Q), e) ELSE Kept(t, Q)
    BY KeptAppend
  <2>3. Kept(Append(t, e), R) = IF e \in R THEN Append(Kept(t, R), e) ELSE Kept(t, R)
    BY KeptAppend
  <2>4. ASSUME ToSet(Append(t, e)) \cap Q = ToSet(Append(t, e)) \cap R
        PROVE  Kept(Append(t, e), Q) = Kept(Append(t, e), R)
    <3>1. ToSet(t) \cap Q = ToSet(t) \cap R /\ (e \in Q <=> e \in R)
      BY <2>1, <2>4
    <3>2. Kept(t, Q) = Kept(t, R)
      BY <1>2, <3>1
    <3> QED
      BY <2>2, <2>3, <3>1, <3>2
  <2> QED
    BY <2>1, <2>4
<1>3. s \in Z
  <2> HIDE DEF Z
  <2> QED
    BY <1>1, <1>2, SeqReaches
<1> QED
  BY <1>3

\* Both together.
LEMMA KeptBoth ==
    ASSUME NEW S, NEW Q, NEW R, NEW T, NEW s \in Seq(S), ToSet(s) \cap Q \cap R = ToSet(s) \cap T
    PROVE  Kept(Kept(s, Q), R) = Kept(s, T)
<1>1. Kept(Kept(s, Q), R) = Kept(s, Q \cap R)
  BY KeptTwice
<1>2. ToSet(s) \cap (Q \cap R) = ToSet(s) \cap T
  OBVIOUS
<1> QED
  BY <1>1, <1>2, KeptAlike

\* Nothing is left out where all is in the set.
LEMMA KeptAll ==
    ASSUME NEW S, NEW R, NEW s \in Seq(S), ToSet(s) \subseteq R
    PROVE  Kept(s, R) = s
<1> DEFINE Z == {t \in Seq(S) : ToSet(t) \subseteq R => Kept(t, R) = t}
<1>1. <<>> \in Z
  BY KeptEmpty, EmptySeq
<1>2. ASSUME NEW t \in Seq(S), NEW e \in S, t \in Z PROVE Append(t, e) \in Z
  <2>1. ToSet(Append(t, e)) = ToSet(t) \cup {e} /\ Append(t, e) \in Seq(S)
    BY AppendSet, AppendProperties
  <2>2. Kept(Append(t, e), R) = IF e \in R THEN Append(Kept(t, R), e) ELSE Kept(t, R)
    BY KeptAppend
  <2>3. ToSet(Append(t, e)) \subseteq R => Kept(Append(t, e), R) = Append(t, e)
    BY <1>2, <2>1, <2>2
  <2> QED
    BY <2>1, <2>3
<1>3. s \in Z
  <2> HIDE DEF Z
  <2> QED
    BY <1>1, <1>2, SeqReaches
<1> QED
  BY <1>3

-----------------------------------------------------------------------------
(* StoragePairs: rows in the order of their ids                            *)

Rising(s) == \A i, j \in 1 .. Len(s) : i < j => s[i].id < s[j].id
Below(s, n) == \A r \in ToSet(s) : r.id \in 1 .. n

\* A row with a higher id may follow.
LEMMA AppendRising ==
    ASSUME NEW S, \A r \in S : r.id \in Int, NEW s \in Seq(S), NEW e \in S
    PROVE  Rising(Append(s, e)) <=> Rising(s) /\ \A r \in ToSet(s) : r.id < e.id
<1> DEFINE t == Append(s, e)
<1>0. Len(s) \in Nat
  OBVIOUS
<1>1. t \in Seq(S) /\ Len(t) = Len(s) + 1 /\ t[Len(s) + 1] = e /\ \A i \in 1 .. Len(s) : t[i] = s[i]
  BY AppendProperties
<1>2. ToSet(s) = {s[i] : i \in 1 .. Len(s)}
  BY SetParts
<1> HIDE DEF t
<1>3. ASSUME Rising(t) PROVE Rising(s) /\ \A r \in ToSet(s) : r.id < e.id
  <2>1. ASSUME NEW i \in 1 .. Len(s) PROVE s[i].id < e.id
    <3>1. i \in 1 .. Len(t) /\ Len(s) + 1 \in 1 .. Len(t) /\ i < Len(s) + 1
      BY <1>0, <1>1
    <3> QED
      BY <1>1, <1>3, <3>1 DEF Rising
  <2>2. ASSUME NEW i \in 1 .. Len(s), NEW j \in 1 .. Len(s), i < j PROVE s[i].id < s[j].id
    <3>1. i \in 1 .. Len(t) /\ j \in 1 .. Len(t)
      BY <1>0, <1>1
    <3> QED
      BY <1>1, <1>3, <2>2, <3>1 DEF Rising
  <2> QED
    BY <1>2, <2>1, <2>2 DEF Rising
<1>4. ASSUME Rising(s), \A r \in ToSet(s) : r.id < e.id PROVE Rising(t)
  <2>1. ASSUME NEW i \in 1 .. Len(t), NEW j \in 1 .. Len(t), i < j PROVE t[i].id < t[j].id
    <3>1. i \in 1 .. Len(s) /\ t[i] = s[i] /\ s[i] \in ToSet(s)
      BY <1>0, <1>1, <1>2, <2>1
    <3>2. CASE j = Len(s) + 1
      BY <1>1, <1>4, <3>1, <3>2
    <3>3. CASE j # Len(s) + 1
      <4>1. j \in 1 .. Len(s)
        BY <1>0, <1>1, <3>3
      <4> QED
        BY <1>1, <1>4, <2>1, <3>1, <4>1 DEF Rising
    <3> QED
      BY <3>2, <3>3
  <2> QED
    BY <2>1 DEF Rising
<1> QED
  BY <1>3, <1>4 DEF t

\* The empty sequence is in order.
LEMMA EmptyRising == Rising(<<>>)
BY DEF Rising

\* Keeping does not change the order.
LEMMA KeptRising ==
    ASSUME NEW S, \A r \in S : r.id \in Int, NEW R, NEW s \in Seq(S), Rising(s)
    PROVE  Rising(Kept(s, R))
<1> DEFINE Z == {t \in Seq(S) : Rising(t) => Rising(Kept(t, R))}
<1>1. <<>> \in Z
  BY KeptEmpty, EmptyRising, EmptySeq
<1>2. ASSUME NEW t \in Seq(S), NEW e \in S, t \in Z PROVE Append(t, e) \in Z
  <2>1. Rising(Append(t, e)) <=> Rising(t) /\ \A r \in ToSet(t) : r.id < e.id
    BY AppendRising
  <2>2. Kept(Append(t, e), R) = IF e \in R THEN Append(Kept(t, R), e) ELSE Kept(t, R)
    BY KeptAppend
  <2>3. Kept(t, R) \in Seq(S) /\ ToSet(Kept(t, R)) \subseteq ToSet(t)
    BY KeptRows, KeptSet
  <2>4. Rising(Append(Kept(t, R), e))
          <=> Rising(Kept(t, R)) /\ \A r \in ToSet(Kept(t, R)) : r.id < e.id
    BY <2>3, AppendRising
  <2>5. Rising(Append(t, e)) => Rising(Kept(Append(t, e), R))
    BY <1>2, <2>1, <2>2, <2>3, <2>4
  <2>6. Append(t, e) \in Seq(S)
    BY AppendProperties
  <2> QED
    BY <2>5, <2>6
<1>3. s \in Z
  <2> HIDE DEF Z
  <2> QED
    BY <1>1, <1>2, SeqReaches
<1> QED
  BY <1>3

\* As many rows as there are elements.
LEMMA RisingCount ==
    ASSUME NEW S, \A r \in S : r.id \in Int, NEW s \in Seq(S), Rising(s)
    PROVE  IsFiniteSet(ToSet(s)) /\ Cardinality(ToSet(s)) = Len(s)
<1>0. Len(s) \in Nat /\ \A i \in 1 .. Len(s) : s[i] \in S /\ s[i].id \in Int
  OBVIOUS
<1>1. ToSet(s) = {s[i] : i \in 1 .. Len(s)} /\ s \in [1 .. Len(s) -> S] /\ DOMAIN s = 1 .. Len(s)
  BY SetParts, LenProperties
<1>2. ASSUME NEW i \in 1 .. Len(s), NEW j \in 1 .. Len(s), s[i] = s[j] PROVE i = j
  <2>1. ~(s[i].id < s[j].id) /\ ~(s[j].id < s[i].id)
    BY <1>0, <1>2
  <2>2. ~(i < j) /\ ~(j < i)
    BY <2>1 DEF Rising
  <2> QED
    BY <2>2
<1>3. s \in Bijection(1 .. Len(s), ToSet(s))
  <2>1. s \in [1 .. Len(s) -> ToSet(s)]
    BY <1>1
  <2>2. s \in Injection(1 .. Len(s), ToSet(s))
    BY <1>1, <1>2, <2>1 DEF Injection, IsInjective
  <2>3. s \in Surjection(1 .. Len(s), ToSet(s))
    BY <1>1, <2>1 DEF Surjection
  <2> QED
    BY <2>2, <2>3 DEF Bijection
<1>4. ExistsBijection(1 .. Len(s), ToSet(s))
  BY <1>3 DEF ExistsBijection
<1>5. IsFiniteSet(1 .. Len(s)) /\ Cardinality(1 .. Len(s)) = Len(s)
  <2>0. PICK n \in Nat : n = Len(s)
    BY <1>0
  <2>1. 1 \in Int /\ n \in Int
    OBVIOUS
  <2>2. IsFiniteSet(1 .. n)
    BY <2>1, FS_Interval
  <2>3. Cardinality(1 .. n) = IF 1 > n THEN 0 ELSE n - 1 + 1
    BY <2>1, FS_Interval
  <2>4. Cardinality(1 .. n) = n
    BY <2>3
  <2> QED
    BY <2>0, <2>2, <2>4
<1> QED
  BY <1>4, <1>5, FS_Bijection

-----------------------------------------------------------------------------
(* StoragePairs: the first rows                                            *)

\* The first n rows.
LEMMA FirstParts ==
    ASSUME NEW S, NEW s \in Seq(S), NEW n \in Nat
    PROVE  /\ First(s, n) \in Seq(S) /\ Len(First(s, n)) = (IF n < Len(s) THEN n ELSE Len(s))
           /\ \A i \in 1 .. Len(First(s, n)) : First(s, n)[i] = s[i]
<1> DEFINE m == IF n < Len(s) THEN n ELSE Len(s)
<1>0. Len(s) \in Nat /\ m \in Nat /\ m <= Len(s) /\ \A i \in 1 .. Len(s) : s[i] \in S
  OBVIOUS
<1>1. First(s, n) = SubSeq(s, 1, m)
  BY DEF First
<1> HIDE DEF m
<1>2. \A i \in 1 .. m : s[i] \in S
  BY <1>0
<1>3. /\ SubSeq(s, 1, m) \in Seq(S)
      /\ Len(SubSeq(s, 1, m)) = IF 1 <= m THEN m - 1 + 1 ELSE 0
      /\ \A i \in 1 .. m - 1 + 1 : SubSeq(s, 1, m)[i] = s[1 + i - 1]
  BY <1>0, <1>2, SubSeqProperties
<1>4. Len(SubSeq(s, 1, m)) = m /\ m - 1 + 1 = m /\ \A i \in 1 .. m : 1 + i - 1 = i
  BY <1>0, <1>3
<1>5. \A i \in 1 .. m : SubSeq(s, 1, m)[i] = s[i]
  BY <1>3, <1>4
<1> QED
  BY <1>1, <1>3, <1>4, <1>5 DEF m

\* All rows, where there are no more.
LEMMA FirstAll ==
    ASSUME NEW S, NEW s \in Seq(S), NEW n \in Nat, Len(s) <= n
    PROVE  First(s, n) = s
<1>0. Len(s) \in Nat
  OBVIOUS
<1>1. ~(n < Len(s))
  BY <1>0
<1>2. First(s, n) = SubSeq(s, 1, Len(s))
  BY <1>1 DEF First
<1> QED
  BY <1>2, SubSeqFull

\* One more row is among the first unless there were enough.
LEMMA FirstAppend ==
    ASSUME NEW S, NEW s \in Seq(S), NEW e \in S, NEW n \in Nat
    PROVE  First(Append(s, e), n)
             = IF Len(First(s, n)) >= n THEN First(s, n) ELSE Append(First(s, n), e)
<1> DEFINE t == Append(s, e)
<1>0. Len(s) \in Nat
  OBVIOUS
<1>1. t \in Seq(S) /\ Len(t) = Len(s) + 1 /\ \A i \in 1 .. Len(s) : t[i] = s[i]
  BY AppendProperties
<1>2. /\ First(s, n) \in Seq(S) /\ Len(First(s, n)) = (IF n < Len(s) THEN n ELSE Len(s))
      /\ \A i \in 1 .. Len(First(s, n)) : First(s, n)[i] = s[i]
  BY FirstParts
<1> HIDE DEF t
<1>3. CASE Len(First(s, n)) >= n
  <2>1. Len(First(s, n)) = n /\ n <= Len(s)
    BY <1>0, <1>2, <1>3
  <2>2. /\ First(t, n) \in Seq(S) /\ Len(First(t, n)) = n
        /\ \A i \in 1 .. n : First(t, n)[i] = t[i]
    <3>1. /\ First(t, n) \in Seq(S) /\ Len(First(t, n)) = (IF n < Len(t) THEN n ELSE Len(t))
          /\ \A i \in 1 .. Len(First(t, n)) : First(t, n)[i] = t[i]
      BY <1>1, FirstParts
    <3>2. n < Len(t)
      BY <1>0, <1>1, <2>1
    <3> QED
      BY <3>1, <3>2
  <2>3. \A i \in 1 .. n : First(t, n)[i] = First(s, n)[i]
    <3>1. \A i \in 1 .. n : i \in 1 .. Len(s)
      BY <1>0, <2>1
    <3> QED
      BY <1>1, <1>2, <2>1, <2>2, <3>1
  <2>4. First(t, n) = First(s, n)
    BY <1>2, <2>1, <2>2, <2>3, SeqEqual
  <2> QED
    BY <1>3, <2>4 DEF t
<1>4. CASE ~(Len(First(s, n)) >= n)
  <2>1. Len(s) < n
    BY <1>0, <1>2, <1>4
  <2>2. First(s, n) = s
    <3>1. Len(s) <= n
      BY <1>0, <2>1
    <3> QED
      BY <3>1, FirstAll
  <2>3. First(t, n) = t
    <3>1. Len(t) <= n
      BY <1>0, <1>1, <2>1
    <3> QED
      BY <1>1, <3>1, FirstAll
  <2> QED
    BY <1>4, <2>2, <2>3 DEF t
<1> QED
  BY <1>3, <1>4

\* Without elements there are no rows.
LEMMA NoRows ==
    ASSUME NEW S, NEW s \in Seq(S), ToSet(s) = {}
    PROVE  s = <<>>
<1>1. ToSet(s) = {s[i] : i \in 1 .. Len(s)} /\ Len(s) \in Nat
  BY SetParts, LenProperties
<1>2. Len(s) = 0
  <2>1. 1 \notin 1 .. Len(s)
    BY <1>1
  <2> QED
    BY <1>1, <2>1
<1> QED
  BY <1>2, EmptySeq

\* Of rows in order, those beyond the m-th are the rest.
Beyond(S, n) == {r \in S : r.id > n}

\* The rows after one.
LEMMA RestParts ==
    ASSUME NEW S, NEW s \in Seq(S), NEW k \in 1 .. Len(s), NEW a, a = SubSeq(s, k + 1, Len(s))
    PROVE  /\ a \in Seq(S) /\ Len(a) = Len(s) - k
           /\ \A i \in 1 .. Len(s) - k : a[i] = s[k + i]
<1>1. /\ k + 1 \in Int /\ Len(s) \in Int /\ k \in Int /\ k <= Len(s)
      /\ \A i \in k + 1 .. Len(s) : s[i] \in S
  OBVIOUS
<1> DEFINE p == k + 1
           q == Len(s)
<1>2. p \in Int /\ q \in Int /\ a = SubSeq(s, p, q) /\ \A i \in p .. q : s[i] \in S
  BY <1>1
<1>3. /\ Len(s) - k = q - p + 1 /\ \A i \in 1 .. Len(s) - k : p + i - 1 = k + i
      /\ Len(s) - k = IF p <= q THEN q - p + 1 ELSE 0
  BY <1>1
<1> HIDE DEF p, q
<1>4. /\ SubSeq(s, p, q) \in Seq(S)
      /\ Len(SubSeq(s, p, q)) = IF p <= q THEN q - p + 1 ELSE 0
      /\ \A i \in 1 .. q - p + 1 : SubSeq(s, p, q)[i] = s[p + i - 1]
  BY <1>2, SubSeqProperties
<1> QED
  BY <1>2, <1>3, <1>4

\* Keeping the rows beyond one leaves the rest of the sequence.
LEMMA KeptBeyond ==
    ASSUME NEW S, \A r \in S : r.id \in Int, NEW s \in Seq(S), Rising(s), NEW m \in 1 .. Len(s)
    PROVE  Kept(s, Beyond(S, s[m].id)) = SubSeq(s, m + 1, Len(s))
<1> DEFINE Rest(t) == \A k \in 1 .. Len(t) :
                         Kept(t, Beyond(S, t[k].id)) = SubSeq(t, k + 1, Len(t))
           Z == {t \in Seq(S) : Rising(t) => Rest(t)}
<1>1. <<>> \in Z
  <2>1. <<>> \in Seq(S) /\ Rest(<<>>)
    BY EmptySeq
  <2> HIDE DEF Rest
  <2> QED
    BY <2>1
<1>2. ASSUME NEW t \in Seq(S), NEW e \in S, t \in Z PROVE Append(t, e) \in Z
  <2> DEFINE u == Append(t, e)
             n == Len(t)
  <2>0. n \in Nat /\ \A i \in 1 .. n : t[i] \in S /\ t[i].id \in Int
    OBVIOUS
  <2>1. u \in Seq(S) /\ Len(u) = n + 1 /\ u[n + 1] = e /\ \A i \in 1 .. n : u[i] = t[i]
    BY AppendProperties
  <2>2. Rising(u) <=> Rising(t) /\ \A r \in ToSet(t) : r.id < e.id
    BY AppendRising
  <2>3. \A R : Kept(u, R) = IF e \in R THEN Append(Kept(t, R), e) ELSE Kept(t, R)
    BY KeptAppend
  <2>4. ToSet(t) = {t[i] : i \in 1 .. n} /\ ToSet(t) \subseteq S
    BY SetParts
  <2> HIDE DEF u, n
  <2>5. ASSUME Rising(u), NEW k \in 1 .. n + 1
        PROVE  Kept(u, Beyond(S, u[k].id)) = SubSeq(u, k + 1, n + 1)
    <3>1. CASE k = n + 1
      <4>1. u[k] = e /\ e \notin Beyond(S, e.id)
        BY <2>1, <3>1 DEF Beyond
      <4>2. Kept(u, Beyond(S, e.id)) = Kept(t, Beyond(S, e.id))
        BY <2>3, <4>1
      <4>3. ToSet(Kept(t, Beyond(S, e.id))) = ToSet(t) \cap Beyond(S, e.id)
        BY KeptSet
      <4>4. ToSet(t) \cap Beyond(S, e.id) = {}
        <5>1. ASSUME NEW r \in ToSet(t) PROVE ~(r.id > e.id)
          <6>1. r.id < e.id /\ r.id \in Int /\ e.id \in Int
            BY <2>2, <2>4, <2>5
          <6> QED
            BY <6>1
        <5> QED
          BY <5>1 DEF Beyond
      <4>5. Kept(t, Beyond(S, e.id)) = <<>>
        BY <4>3, <4>4, KeptRows, NoRows
      <4>6. SubSeq(u, k + 1, n + 1) = <<>>
        BY <2>0, <3>1, SubSeqEmpty
      <4> QED
        BY <4>1, <4>2, <4>5, <4>6
    <3>2. CASE k # n + 1
      <4>1. k \in 1 .. n /\ u[k] = t[k] /\ t[k] \in ToSet(t)
        BY <2>0, <2>1, <2>4, <3>2
      <4>2. e \in Beyond(S, t[k].id)
        <5>1. t[k].id < e.id /\ t[k].id \in Int /\ e.id \in Int
          BY <2>0, <2>2, <2>5, <4>1
        <5> QED
          BY <5>1 DEF Beyond
      <4>3. Kept(t, Beyond(S, t[k].id)) = SubSeq(t, k + 1, n)
        <5>1. Rest(t)
          <6> HIDE DEF Rest
          <6> QED
            BY <1>2, <2>2, <2>5
        <5> QED
          BY <4>1, <5>1 DEF n
      <4>4. Kept(u, Beyond(S, u[k].id)) = Append(SubSeq(t, k + 1, n), e)
        BY <2>3, <4>1, <4>2, <4>3
      <4> DEFINE a == SubSeq(t, k + 1, n)
                 b == SubSeq(u, k + 1, n + 1)
      <4>5. /\ a \in Seq(S) /\ Len(a) = n - k
            /\ \A i \in 1 .. n - k : a[i] = t[k + i]
        <5>1. k \in 1 .. Len(t) /\ a = SubSeq(t, k + 1, Len(t))
          BY <4>1 DEF n
        <5>2. a \in Seq(S) /\ Len(a) = Len(t) - k /\ \A i \in 1 .. Len(t) - k : a[i] = t[k + i]
          <6> HIDE DEF a, n
          <6> QED
            BY <5>1, RestParts
        <5> QED
          BY <5>2 DEF n
      <4>6. /\ b \in Seq(S) /\ Len(b) = n - k + 1
            /\ \A i \in 1 .. n - k + 1 : b[i] = u[k + i]
        <5>1. k \in 1 .. Len(u) /\ Len(u) - k = n - k + 1 /\ b = SubSeq(u, k + 1, Len(u))
          BY <2>0, <2>1, <4>1
        <5> HIDE DEF b, u, n
        <5> QED
          BY <2>1, <5>1, RestParts
      <4> HIDE DEF a, b
      <4>7. /\ Append(a, e) \in Seq(S) /\ Len(Append(a, e)) = n - k + 1
            /\ Append(a, e)[n - k + 1] = e /\ \A i \in 1 .. n - k : Append(a, e)[i] = a[i]
        BY <4>5, AppendProperties
      <4>8. ASSUME NEW i \in 1 .. n - k + 1 PROVE Append(a, e)[i] = b[i]
        <5>1. CASE i = n - k + 1
          <6>1. k + i = n + 1
            BY <2>0, <4>1, <5>1
          <6> QED
            BY <2>1, <4>6, <4>7, <5>1, <6>1
        <5>2. CASE i # n - k + 1
          <6>0. n \in Nat /\ k \in Nat /\ k <= n
            BY <2>0, <4>1
          <6> HIDE DEF n
          <6>1. i \in 1 .. n - k /\ k + i \in 1 .. n
            BY <5>2, <6>0
          <6> QED
            BY <2>1, <4>5, <4>6, <4>7, <6>1
        <5> QED
          BY <5>1, <5>2
      <4>9. Append(a, e) = b
        BY <4>6, <4>7, <4>8, SeqEqual
      <4> QED
        BY <4>4, <4>9 DEF a, b
    <3> QED
      BY <3>1, <3>2
  <2>6. Rising(u) => Rest(u)
    BY <2>1, <2>5
  <2> HIDE DEF Rest
  <2>7. u \in Z
    BY <2>1, <2>6
  <2> QED
    BY <2>7 DEF u
<1>3. s \in Z
  <2> HIDE DEF Z
  <2> QED
    BY <1>1, <1>2, SeqReaches
<1>4. Rest(s)
  <2> HIDE DEF Rest
  <2> QED
    BY <1>3
<1> QED
  BY <1>4

\* A page, and the rows beyond its last, are all rows.
LEMMA PageAndRest ==
    ASSUME NEW S, \A r \in S : r.id \in Int, NEW s \in Seq(S), Rising(s), NEW l \in Nat,
           NEW n \in Nat, Len(s) <= n, First(s, l) # <<>>
    PROVE  /\ Last(First(s, l)) \in ToSet(s)
           /\ First(s, l) \o First(Kept(s, Beyond(S, Last(First(s, l)).id)), n) = First(s, n)
<1> DEFINE p == First(s, l)
           m == Len(p)
<1>0. Len(s) \in Nat /\ \A i \in 1 .. Len(s) : s[i] \in S
  OBVIOUS
<1>1. /\ p \in Seq(S) /\ m = (IF l < Len(s) THEN l ELSE Len(s))
      /\ \A i \in 1 .. m : p[i] = s[i]
  BY FirstParts
<1>2. Last(p) = p[m]
  BY DEF Last
<1>e. p # <<>>
  OBVIOUS
<1> HIDE DEF p
<1>3. m \in 1 .. Len(s)
  <2>1. m \in Nat /\ m # 0
    BY <1>1, <1>e, EmptySeq
  <2> HIDE DEF m
  <2> QED
    BY <1>0, <1>1, <2>1
<1> HIDE DEF m
<1>4. Last(p) = s[m] /\ s[m] \in ToSet(s)
  <2>1. m \in 1 .. m
    BY <1>3
  <2> QED
    BY <1>1, <1>2, <1>3, <2>1, SetParts
<1> DEFINE q == SubSeq(s, m + 1, Len(s))
<1>5. Kept(s, Beyond(S, s[m].id)) = q
  BY <1>3, KeptBeyond
<1>6. /\ q \in Seq(S) /\ Len(q) = Len(s) - m
      /\ \A i \in 1 .. Len(s) - m : q[i] = s[m + i]
  <2>1. \A i \in m + 1 .. Len(s) : s[i] \in S
    BY <1>0, <1>3
  <2>2. /\ q \in Seq(S) /\ Len(q) = IF m + 1 <= Len(s) THEN Len(s) - (m + 1) + 1 ELSE 0
        /\ \A i \in 1 .. Len(s) - (m + 1) + 1 : q[i] = s[(m + 1) + i - 1]
    BY <1>0, <1>3, <2>1, SubSeqProperties
  <2>3. Len(s) - (m + 1) + 1 = Len(s) - m /\ \A i \in 1 .. Len(s) - m : (m + 1) + i - 1 = m + i
    BY <1>0, <1>3
  <2>4. Len(q) = Len(s) - m
    BY <1>0, <1>3, <2>2
  <2> QED
    BY <2>2, <2>3, <2>4
<1> HIDE DEF q
<1>7. First(q, n) = q /\ First(s, n) = s
  <2>1. Len(q) <= n
    BY <1>0, <1>3, <1>6
  <2> QED
    BY <1>6, <2>1, FirstAll
<1>8. p \o q = s
  <2>1. /\ p \o q \in Seq(S) /\ Len(p \o q) = Len(p) + Len(q)
        /\ \A i \in 1 .. Len(p) + Len(q) : (p \o q)[i] = IF i <= Len(p) THEN p[i] ELSE q[i - Len(p)]
    BY <1>1, <1>6, ConcatProperties
  <2>2. Len(p) = m /\ m + (Len(s) - m) = Len(s)
    BY <1>0, <1>3 DEF m
  <2>3. Len(p \o q) = Len(s)
    BY <1>6, <2>1, <2>2
  <2>4. ASSUME NEW i \in 1 .. Len(s) PROVE (p \o q)[i] = s[i]
    <3>1. (p \o q)[i] = IF i <= m THEN p[i] ELSE q[i - m]
      BY <1>6, <2>1, <2>2
    <3>2. CASE i <= m
      <4>1. i \in 1 .. m
        BY <1>3, <3>2
      <4> QED
        BY <1>1, <3>1, <3>2, <4>1
    <3>3. CASE ~(i <= m)
      <4>1. i - m \in 1 .. Len(s) - m /\ m + (i - m) = i
        BY <1>0, <1>3, <3>3
      <4> QED
        BY <1>6, <3>1, <3>3, <4>1
    <3> QED
      BY <3>2, <3>3
  <2> QED
    BY <2>1, <2>3, <2>4, SeqEqual
<1> QED
  BY <1>4, <1>5, <1>7, <1>8 DEF p

-----------------------------------------------------------------------------
(* StoragePairs: the inductive invariant                                   *)

\* The rows.
Subscription == [id : Nat, owner : Owners, enabled : BOOLEAN]
ActionId == Nat \X Nat
ActionRow == [id : ActionId, sub : Nat, position : Nat]
Entry == [id : Nat, action : ActionId]
ConsumerRow == [id : Nat, disabled : BOOLEAN]
CredentialRow == [id : Nat, consumer : Nat, type : {"bearer", "hmac"}, hash : Digests]
Delivery == [id : Nat, target : Owners, acked : BOOLEAN]

Tables == {"sources", "subs", "actions", "buffer", "completions", "principals", "runs",
           "consumers", "credentials", "deliveries"}
Shapes == /\ stored \in Nat /\ stored <= MaxStored
          /\ DOMAIN pg = Tables /\ DOMAIN mem = Tables \cup {"claimed"}

\* Most tables are the same in both.
PrincipalsAlike ==
    pg.sources = mem.sources /\ pg.principals = mem.principals /\ pg.runs = mem.runs
ConsumersAlike ==
    /\ pg.consumers = mem.consumers /\ mem.consumers \in Seq(ConsumerRow)
    /\ pg.credentials = mem.credentials /\ mem.credentials \in Seq(CredentialRow)
DeliveriesAlike ==
    /\ pg.deliveries = mem.deliveries /\ mem.deliveries \in Seq(Delivery)
    /\ Rising(mem.deliveries) /\ Below(mem.deliveries, stored) /\ Len(mem.deliveries) <= stored
SubsAlike ==
    /\ pg.subs = mem.subs /\ mem.subs \in Seq(Subscription)
    /\ pg.actions = mem.actions /\ mem.actions \in Seq(ActionRow)
    /\ \A a \in ToSet(mem.actions) : a.id[1] = a.sub /\ a.sub <= stored

\* The dictionaries keep what belongs to actions that are gone, and entries that are
\* claimed; the tables are the rest.
LiveIds == {a.id : a \in ToSet(mem.actions)}
Open == {e \in ToSet(mem.buffer) : e.id \notin mem.claimed /\ e.action \in LiveIds}
BuffersAlike ==
    /\ mem.buffer \in Seq(Entry) /\ Rising(mem.buffer) /\ Below(mem.buffer, stored)
    /\ \A e \in ToSet(mem.buffer) : e.action[1] <= stored
    /\ mem.claimed \subseteq 1 .. stored
    /\ pg.buffer = Kept(mem.buffer, Open)
CompletionsAlike ==
    /\ \A k \in mem.completions : k \in Events \X ActionId /\ k[2][1] <= stored
    /\ pg.completions = {k \in mem.completions : k[2] \in LiveIds}

PairsInv ==
    /\ Shapes /\ answer.pg = answer.mem
    /\ PrincipalsAlike /\ ConsumersAlike /\ DeliveriesAlike
    /\ SubsAlike /\ BuffersAlike /\ CompletionsAlike

\* It holds of empty stores.
LEMMA PairsInvInit == PairsInit => PairsInv
<1> SUFFICES ASSUME PairsInit PROVE PairsInv
  OBVIOUS
<1>1. Shapes /\ answer.pg = answer.mem /\ PrincipalsAlike
  BY StorageAssumption DEF PairsInit, Shapes, Tables, PrincipalsAlike
<1>2. /\ mem.subs = <<>> /\ mem.actions = <<>> /\ mem.buffer = <<>> /\ mem.deliveries = <<>>
      /\ mem.consumers = <<>> /\ mem.credentials = <<>> /\ mem.completions = {}
      /\ pg.subs = <<>> /\ pg.actions = <<>> /\ pg.buffer = <<>> /\ pg.deliveries = <<>>
      /\ pg.consumers = <<>> /\ pg.credentials = <<>> /\ pg.completions = {}
      /\ mem.claimed = {} /\ stored = 0
  BY DEF PairsInit
<1>3. \A S : <<>> \in Seq(S)
  BY EmptySeq
<1>4. Below(<<>>, 0) /\ Len(<<>>) = 0
  BY EmptySet DEF Below
<1>5. ConsumersAlike /\ DeliveriesAlike
  BY <1>2, <1>3, <1>4, EmptyRising DEF ConsumersAlike, DeliveriesAlike
<1>6. SubsAlike
  BY <1>2, <1>3, EmptySet DEF SubsAlike
<1>7. BuffersAlike
  BY <1>2, <1>3, <1>4, EmptyRising, EmptySet, KeptEmpty DEF BuffersAlike
<1>8. CompletionsAlike
  BY <1>2 DEF CompletionsAlike
<1> QED
  BY <1>1, <1>5, <1>6, <1>7, <1>8 DEF PairsInv

\* Rows that are changed in place stay rows.
LEMMA UpdatedParts ==
    ASSUME NEW S, NEW s \in Seq(S), NEW id, NEW field, NEW v,
           \A r \in S : [r EXCEPT ![field] = v] \in S
    PROVE  /\ Updated(s, id, field, v) \in Seq(S) /\ Len(Updated(s, id, field, v)) = Len(s)
           /\ \A i \in 1 .. Len(s) : Updated(s, id, field, v)[i]
                 = IF s[i].id = id THEN [s[i] EXCEPT ![field] = v] ELSE s[i]
<1>0. Len(s) \in Nat /\ \A i \in 1 .. Len(s) : s[i] \in S
  OBVIOUS
<1> DEFINE u == [i \in 1 .. Len(s) |-> IF s[i].id = id THEN [s[i] EXCEPT ![field] = v] ELSE s[i]]
<1>1. u = Updated(s, id, field, v)
  BY DEF Updated
<1>2. ASSUME NEW i \in 1 .. Len(s)
      PROVE  (IF s[i].id = id THEN [s[i] EXCEPT ![field] = v] ELSE s[i]) \in S
  BY <1>0
<1>3. u \in [1 .. Len(s) -> S]
  BY <1>2
<1>4. u \in Seq(S) /\ Len(u) = Len(s)
  BY <1>0, <1>3, IsASeqFunction
<1> QED
  BY <1>1, <1>4

\* The entries of the dictionaries, when one more row exists somewhere.
LEMMA BelowMore ==
    ASSUME NEW S, NEW s, NEW n \in Nat, NEW m \in Nat, n <= m, Below(s, n)
    PROVE  Below(s, m)
BY DEF Below

\* The ids of rows.
LEMMA IdsOf ==
    ASSUME NEW S, NEW s \in Seq(S)
    PROVE  Ids(s) = {r.id : r \in ToSet(s)}
<1>1. ToSet(s) = {s[i] : i \in 1 .. Len(s)}
  BY SetParts
<1> QED
  BY <1>1 DEF Ids

-----------------------------------------------------------------------------
(* StoragePairs: what a step leaves alone                                  *)

\* The number of rows ever created grows by one or not at all.
Grows == stored' \in Nat /\ stored <= stored' /\ stored' <= MaxStored

\* It does in every step.
LEMMA GrowsSo ==
    ASSUME Shapes, Keeps \/ Creates \/ UNCHANGED stored
    PROVE  Grows
BY StorageAssumption DEF Shapes, Keeps, Creates, Grows

\* Deliveries that no operation touched.
LEMMA DeliveriesKept ==
    ASSUME Shapes, Grows, DeliveriesAlike,
           pg'.deliveries = pg.deliveries, mem'.deliveries = mem.deliveries
    PROVE  DeliveriesAlike'
<1>1. Below(mem.deliveries, stored') /\ Len(mem.deliveries) <= stored'
  <2>1. Below(mem.deliveries, stored')
    BY BelowMore DEF Shapes, Grows, DeliveriesAlike
  <2>2. Len(mem.deliveries) \in Nat
    BY DEF DeliveriesAlike
  <2> QED
    BY <2>1, <2>2 DEF Shapes, Grows, DeliveriesAlike
<1>2. PICK d, n : d = mem.deliveries /\ d = mem'.deliveries /\ n = stored'
  OBVIOUS
<1> QED
  BY <1>1, <1>2 DEF DeliveriesAlike

\* Consumers and credentials that no operation touched.
LEMMA ConsumersKept ==
    ASSUME ConsumersAlike, pg'.consumers = pg.consumers, mem'.consumers = mem.consumers,
           pg'.credentials = pg.credentials, mem'.credentials = mem.credentials
    PROVE  ConsumersAlike'
BY DEF ConsumersAlike

\* Principals, runs and sources that no operation touched.
LEMMA PrincipalsKept ==
    ASSUME PrincipalsAlike, pg'.principals = pg.principals, mem'.principals = mem.principals,
           pg'.runs = pg.runs, mem'.runs = mem.runs,
           pg'.sources = pg.sources, mem'.sources = mem.sources
    PROVE  PrincipalsAlike'
BY DEF PrincipalsAlike

\* Subscriptions and actions that no operation touched.
LEMMA SubsKept ==
    ASSUME Shapes, Grows, SubsAlike, pg'.subs = pg.subs, mem'.subs = mem.subs,
           pg'.actions = pg.actions, mem'.actions = mem.actions
    PROVE  SubsAlike' /\ LiveIds' = LiveIds
<1>1. LiveIds' = LiveIds
  BY DEF LiveIds
<1>2. ASSUME NEW a \in ToSet(mem.actions) PROVE a.id[1] = a.sub /\ a.sub <= stored'
  <2>1. a \in ActionRow /\ a.id[1] = a.sub /\ a.sub <= stored
    BY SetParts DEF SubsAlike
  <2>2. a.sub \in Nat
    BY <2>1 DEF ActionRow
  <2> QED
    BY <2>1, <2>2 DEF Shapes, Grows
<1> QED
  BY <1>1, <1>2 DEF SubsAlike

\* Entries and completions are of actions there were.
LEMMA EntriesBefore ==
    ASSUME Shapes, Grows, BuffersAlike
    PROVE  /\ Below(mem.buffer, stored')
           /\ \A e \in ToSet(mem.buffer) : e.action \in ActionId /\ e.action[1] <= stored'
           /\ mem.claimed \subseteq 1 .. stored'
<1>1. Below(mem.buffer, stored')
  BY BelowMore DEF Shapes, Grows, BuffersAlike
<1>2. ASSUME NEW e \in ToSet(mem.buffer) PROVE e.action \in ActionId /\ e.action[1] <= stored'
  <2>1. e \in Entry /\ e.action[1] <= stored
    BY SetParts DEF BuffersAlike
  <2>2. e.action \in ActionId /\ e.action[1] \in Nat
    BY <2>1 DEF Entry, ActionId
  <2> QED
    BY <2>1, <2>2 DEF Shapes, Grows
<1>3. mem.claimed \subseteq 1 .. stored'
  BY DEF Shapes, Grows, BuffersAlike
<1> QED
  BY <1>1, <1>2, <1>3

\* Entries that no operation touched, of actions that are live as before.
LEMMA BuffersKept ==
    ASSUME Shapes, Grows, BuffersAlike, LiveIds' = LiveIds, pg'.buffer = pg.buffer,
           mem'.buffer = mem.buffer, mem'.claimed = mem.claimed
    PROVE  BuffersAlike'
<1>1. Open' = Open
  BY DEF Open
<1> QED
  BY <1>1, EntriesBefore DEF BuffersAlike

\* Completions are of actions there were.
LEMMA CompletionsBefore ==
    ASSUME Shapes, Grows, CompletionsAlike
    PROVE  \A k \in mem.completions : k \in Events \X ActionId /\ k[2][1] <= stored'
<1>1. ASSUME NEW k \in mem.completions PROVE k \in Events \X ActionId /\ k[2][1] <= stored'
  <2>1. k \in Events \X ActionId /\ k[2][1] <= stored
    BY DEF CompletionsAlike
  <2>2. k[2][1] \in Nat
    BY <2>1 DEF ActionId
  <2> QED
    BY <2>1, <2>2 DEF Shapes, Grows
<1> QED
  BY <1>1

\* Completions that no operation touched, of actions that are live as before.
LEMMA CompletionsKept ==
    ASSUME Shapes, Grows, CompletionsAlike, LiveIds' = LiveIds,
           pg'.completions = pg.completions, mem'.completions = mem.completions
    PROVE  CompletionsAlike'
BY CompletionsBefore DEF CompletionsAlike

\* Tables that a step does not touch.
OthersStay(touched) ==
    \A t \in Tables \ touched : pg'[t] = pg[t] /\ mem'[t] = mem[t]

\* A step of the principals, or of the sources.
LEMMA PrincipalSide ==
    ASSUME PairsInv, Shapes', Grows, (answer.pg = answer.mem)', PrincipalsAlike',
           OthersStay({"sources", "principals", "runs"}), mem'.claimed = mem.claimed
    PROVE  PairsInv'
<1>1. /\ pg'.deliveries = pg.deliveries /\ mem'.deliveries = mem.deliveries
      /\ pg'.consumers = pg.consumers /\ mem'.consumers = mem.consumers
      /\ pg'.credentials = pg.credentials /\ mem'.credentials = mem.credentials
      /\ pg'.subs = pg.subs /\ mem'.subs = mem.subs
      /\ pg'.actions = pg.actions /\ mem'.actions = mem.actions
      /\ pg'.buffer = pg.buffer /\ mem'.buffer = mem.buffer
      /\ pg'.completions = pg.completions /\ mem'.completions = mem.completions
  BY DEF OthersStay, Tables
<1>2. SubsAlike' /\ LiveIds' = LiveIds
  BY <1>1, SubsKept DEF PairsInv
<1>3. DeliveriesAlike' /\ ConsumersAlike'
  BY <1>1, DeliveriesKept, ConsumersKept DEF PairsInv
<1>4. BuffersAlike' /\ CompletionsAlike'
  BY <1>1, <1>2, BuffersKept, CompletionsKept DEF PairsInv
<1> QED
  BY <1>2, <1>3, <1>4 DEF PairsInv

\* A step of the consumers.
LEMMA ConsumerSide ==
    ASSUME PairsInv, Shapes', Grows, (answer.pg = answer.mem)', ConsumersAlike',
           OthersStay({"consumers", "credentials"}), mem'.claimed = mem.claimed
    PROVE  PairsInv'
<1>1. /\ pg'.deliveries = pg.deliveries /\ mem'.deliveries = mem.deliveries
      /\ pg'.principals = pg.principals /\ mem'.principals = mem.principals
      /\ pg'.runs = pg.runs /\ mem'.runs = mem.runs
      /\ pg'.sources = pg.sources /\ mem'.sources = mem.sources
      /\ pg'.subs = pg.subs /\ mem'.subs = mem.subs
      /\ pg'.actions = pg.actions /\ mem'.actions = mem.actions
      /\ pg'.buffer = pg.buffer /\ mem'.buffer = mem.buffer
      /\ pg'.completions = pg.completions /\ mem'.completions = mem.completions
  BY DEF OthersStay, Tables
<1>2. SubsAlike' /\ LiveIds' = LiveIds
  BY <1>1, SubsKept DEF PairsInv
<1>3. DeliveriesAlike' /\ PrincipalsAlike'
  BY <1>1, DeliveriesKept, PrincipalsKept DEF PairsInv
<1>4. BuffersAlike' /\ CompletionsAlike'
  BY <1>1, <1>2, BuffersKept, CompletionsKept DEF PairsInv
<1> QED
  BY <1>2, <1>3, <1>4 DEF PairsInv

\* A step of the deliveries.
LEMMA DeliverySide ==
    ASSUME PairsInv, Shapes', Grows, (answer.pg = answer.mem)', DeliveriesAlike',
           OthersStay({"deliveries"}), mem'.claimed = mem.claimed
    PROVE  PairsInv'
<1>1. /\ pg'.consumers = pg.consumers /\ mem'.consumers = mem.consumers
      /\ pg'.credentials = pg.credentials /\ mem'.credentials = mem.credentials
      /\ pg'.principals = pg.principals /\ mem'.principals = mem.principals
      /\ pg'.runs = pg.runs /\ mem'.runs = mem.runs
      /\ pg'.sources = pg.sources /\ mem'.sources = mem.sources
      /\ pg'.subs = pg.subs /\ mem'.subs = mem.subs
      /\ pg'.actions = pg.actions /\ mem'.actions = mem.actions
      /\ pg'.buffer = pg.buffer /\ mem'.buffer = mem.buffer
      /\ pg'.completions = pg.completions /\ mem'.completions = mem.completions
  BY DEF OthersStay, Tables
<1>2. SubsAlike' /\ LiveIds' = LiveIds
  BY <1>1, SubsKept DEF PairsInv
<1>3. ConsumersAlike' /\ PrincipalsAlike'
  BY <1>1, ConsumersKept, PrincipalsKept DEF PairsInv
<1>4. BuffersAlike' /\ CompletionsAlike'
  BY <1>1, <1>2, BuffersKept, CompletionsKept DEF PairsInv
<1> QED
  BY <1>2, <1>3, <1>4 DEF PairsInv

\* A step of the dispatch backends.
LEMMA DispatchSide ==
    ASSUME PairsInv, Shapes', Grows, (answer.pg = answer.mem)', SubsAlike', BuffersAlike',
           CompletionsAlike', OthersStay({"subs", "actions", "buffer", "completions"})
    PROVE  PairsInv'
<1>1. /\ pg'.consumers = pg.consumers /\ mem'.consumers = mem.consumers
      /\ pg'.credentials = pg.credentials /\ mem'.credentials = mem.credentials
      /\ pg'.principals = pg.principals /\ mem'.principals = mem.principals
      /\ pg'.runs = pg.runs /\ mem'.runs = mem.runs
      /\ pg'.sources = pg.sources /\ mem'.sources = mem.sources
      /\ pg'.deliveries = pg.deliveries /\ mem'.deliveries = mem.deliveries
  BY DEF OthersStay, Tables
<1>2. ConsumersAlike' /\ PrincipalsAlike' /\ DeliveriesAlike'
  BY <1>1, ConsumersKept, PrincipalsKept, DeliveriesKept DEF PairsInv
<1> QED
  BY <1>2 DEF PairsInv

\* One table is replaced in both.
LEMMA OneTable ==
    ASSUME Shapes, NEW t \in Tables, NEW v, NEW w,
           pg' = [pg EXCEPT ![t] = v], mem' = [mem EXCEPT ![t] = w]
    PROVE  /\ DOMAIN pg' = Tables /\ DOMAIN mem' = Tables \cup {"claimed"}
           /\ pg'[t] = v /\ mem'[t] = w
           /\ \A u \in Tables \ {t} : pg'[u] = pg[u] /\ mem'[u] = mem[u]
           /\ mem'.claimed = mem.claimed
<1>1. t # "claimed"
  BY DEF Tables
<1> QED
  BY <1>1 DEF Shapes

\* The same, with what else a step says.
LEMMA ShapesSo ==
    ASSUME Grows, DOMAIN pg' = Tables, DOMAIN mem' = Tables \cup {"claimed"}
    PROVE  Shapes'
BY DEF Shapes, Grows

-----------------------------------------------------------------------------
(* StoragePairs: principals and sources                                    *)

\* create_source and delete_source do the same to both.
LEMMA SourceStepAlike ==
    ASSUME PairsInv, CreateSource \/ DeleteSource
    PROVE  PairsInv'
<1>0. Shapes /\ pg.sources = mem.sources
  BY DEF PairsInv, PrincipalsAlike
<1>1. ASSUME NEW v, NEW w, v = w,
             pg' = [pg EXCEPT !.sources = v], mem' = [mem EXCEPT !.sources = w],
             answer'.pg = answer'.mem, Keeps \/ Creates
      PROVE  PairsInv'
  <2>1. "sources" \in Tables
    BY DEF Tables
  <2>2. /\ DOMAIN pg' = Tables /\ DOMAIN mem' = Tables \cup {"claimed"}
        /\ pg'.sources = v /\ mem'.sources = w
        /\ \A u \in Tables \ {"sources"} : pg'[u] = pg[u] /\ mem'[u] = mem[u]
        /\ mem'.claimed = mem.claimed
    BY <1>0, <1>1, <2>1, OneTable
  <2>3. Grows /\ Shapes'
    BY <1>0, <1>1, <2>2, GrowsSo, ShapesSo
  <2>4. PrincipalsAlike'
    BY <1>1, <2>2 DEF PrincipalsAlike, PairsInv, Tables
  <2>5. OthersStay({"sources", "principals", "runs"})
    BY <2>2 DEF OthersStay
  <2> QED
    BY <1>1, <2>2, <2>3, <2>4, <2>5, PrincipalSide
<1>2. CASE CreateSource
  <2>1. PICK slug \in Slugs :
          /\ Both([pg EXCEPT !.sources = PgSource(slug).rows],
                  [mem EXCEPT !.sources = MemorySource(slug).rows],
                  PgSource(slug).answer, MemorySource(slug).answer)
          /\ Creates
    BY <1>2 DEF CreateSource
  <2>2. PgSource(slug) = MemorySource(slug)
    BY <1>0 DEF PgSource, MemorySource
  <2>3. answer'.pg = answer'.mem
    BY <2>1, <2>2 DEF Both
  <2> QED
    BY <1>1, <2>1, <2>2, <2>3 DEF Both
<1>3. CASE DeleteSource
  <2>1. PICK id \in 1 .. stored :
          /\ Same([pg EXCEPT !.sources = Dropped(@, {id})],
                  [mem EXCEPT !.sources = Dropped(@, {id})])
          /\ Keeps
    BY <1>3 DEF DeleteSource
  <2>2. answer'.pg = answer'.mem
    BY <2>1 DEF Both, Same
  <2> QED
    BY <1>0, <1>1, <2>1, <2>2 DEF Both, Same
<1> QED
  BY <1>2, <1>3

\* So do mint, rename, delete and sweep: what each looks at is the same in both.
LEMMA PrincipalStepAlike ==
    ASSUME PairsInv, Mint \/ Rename \/ DeleteBoth \/ SweepBoth
    PROVE  PairsInv'
<1>0. Shapes /\ pg.principals = mem.principals /\ pg.runs = mem.runs
  BY DEF PairsInv, PrincipalsAlike
<1>1. ASSUME NEW v, NEW w, v = w,
             pg' = [pg EXCEPT !.principals = v], mem' = [mem EXCEPT !.principals = w],
             answer'.pg = answer'.mem, Keeps \/ Creates
      PROVE  PairsInv'
  <2>1. "principals" \in Tables
    BY DEF Tables
  <2>2. /\ DOMAIN pg' = Tables /\ DOMAIN mem' = Tables \cup {"claimed"}
        /\ pg'.principals = v /\ mem'.principals = w
        /\ \A u \in Tables \ {"principals"} : pg'[u] = pg[u] /\ mem'[u] = mem[u]
        /\ mem'.claimed = mem.claimed
    BY <1>0, <1>1, <2>1, OneTable
  <2>3. Grows /\ Shapes'
    BY <1>0, <1>1, <2>2, GrowsSo, ShapesSo
  <2>4. PrincipalsAlike'
    BY <1>1, <2>2 DEF PrincipalsAlike, PairsInv, Tables
  <2>5. OthersStay({"sources", "principals", "runs"})
    BY <2>2 DEF OthersStay
  <2> QED
    BY <1>1, <2>2, <2>3, <2>4, <2>5, PrincipalSide
<1>2. CASE Mint
  <2> DEFINE Minted(rows, kind, ref) ==
               IF FindRef(rows, kind, ref) # <<>> THEN rows ELSE Append(rows, MintRow(kind, ref))
  <2>1. PICK kind \in {"run", "user"}, ref \in Refs :
          /\ Both([pg EXCEPT !.principals = Minted(pg.principals, kind, ref)],
                  [mem EXCEPT !.principals = Minted(mem.principals, kind, ref)],
                  FindRef(Minted(pg.principals, kind, ref), kind, ref)[1].id,
                  FindRef(Minted(mem.principals, kind, ref), kind, ref)[1].id)
          /\ Creates
    BY <1>2 DEF Mint
  <2> HIDE DEF Minted
  <2>2. Minted(pg.principals, kind, ref) = Minted(mem.principals, kind, ref)
    BY <1>0
  <2>3. answer'.pg = answer'.mem
    BY <2>1, <2>2 DEF Both
  <2> QED
    BY <1>1, <2>1, <2>2, <2>3 DEF Both
<1>3. CASE Rename
  <2>1. PICK id \in 1 .. stored :
          /\ Both([pg EXCEPT !.principals = Updated(@, id, "name", "new")],
                  [mem EXCEPT !.principals = Updated(@, id, "name", "new")],
                  IF Has(pg.principals, id) THEN "ok" ELSE "error",
                  IF Has(mem.principals, id) THEN "ok" ELSE "error")
          /\ Keeps
    BY <1>3 DEF Rename
  <2>2. answer'.pg = answer'.mem
    BY <1>0, <2>1 DEF Both
  <2> QED
    BY <1>0, <1>1, <2>1, <2>2 DEF Both
<1>4. CASE DeleteBoth
  <2>1. PICK id \in 1 .. stored :
          /\ Same([pg EXCEPT !.principals = Dropped(@, {id})],
                  [mem EXCEPT !.principals = Dropped(@, {id})])
          /\ Keeps
    BY <1>4 DEF DeleteBoth
  <2>2. answer'.pg = answer'.mem
    BY <2>1 DEF Both, Same
  <2> QED
    BY <1>0, <1>1, <2>1, <2>2 DEF Both, Same
<1>5. CASE SweepBoth
  <2> DEFINE P == {r \in ToSet(pg.principals) : ~PgOrphan(r)}
             M == {r \in ToSet(mem.principals) : ~MemoryOrphan(r)}
  <2>1. /\ Both([pg EXCEPT !.principals = Kept(pg.principals, P)],
                [mem EXCEPT !.principals = Kept(mem.principals, M)],
                Len(pg.principals) - Len(Kept(pg.principals, P)),
                Len(mem.principals) - Len(Kept(mem.principals, M)))
        /\ Keeps
    BY <1>5 DEF SweepBoth
  <2>2. P = M
    BY <1>0 DEF PgOrphan, MemoryOrphan
  <2> HIDE DEF P, M
  <2>3. answer'.pg = answer'.mem
    BY <1>0, <2>1, <2>2 DEF Both
  <2> QED
    BY <1>0, <1>1, <2>1, <2>2, <2>3 DEF Both
<1> QED
  BY <1>2, <1>3, <1>4, <1>5

\* A run that starts is seen by both.
LEMMA RunStepAlike ==
    ASSUME PairsInv, RunBoth
    PROVE  PairsInv'
<1>0. Shapes /\ pg.runs = mem.runs
  BY DEF PairsInv, PrincipalsAlike
<1>1. PICK ref \in Refs \ pg.runs :
        Same([pg EXCEPT !.runs = @ \union {ref}], [mem EXCEPT !.runs = @ \union {ref}]) /\ Keeps
  BY DEF RunBoth
<1>2. /\ pg' = [pg EXCEPT !["runs"] = pg.runs \union {ref}]
      /\ mem' = [mem EXCEPT !["runs"] = mem.runs \union {ref}] /\ answer'.pg = answer'.mem
  BY <1>1 DEF Same, Both
<1>3. "runs" \in Tables
  BY DEF Tables
<1>4. /\ DOMAIN pg' = Tables /\ DOMAIN mem' = Tables \cup {"claimed"}
      /\ pg'.runs = pg.runs \union {ref} /\ mem'.runs = mem.runs \union {ref}
      /\ \A u \in Tables \ {"runs"} : pg'[u] = pg[u] /\ mem'[u] = mem[u]
      /\ mem'.claimed = mem.claimed
  BY <1>0, <1>2, <1>3, OneTable
<1>5. Grows /\ Shapes'
  BY <1>0, <1>1, <1>4, GrowsSo, ShapesSo
<1>6. PrincipalsAlike'
  BY <1>0, <1>4 DEF PrincipalsAlike, PairsInv, Tables
<1>7. OthersStay({"sources", "principals", "runs"})
  BY <1>4 DEF OthersStay
<1> QED
  BY <1>2, <1>4, <1>5, <1>6, <1>7, PrincipalSide

-----------------------------------------------------------------------------
(* StoragePairs: consumers, credentials and deliveries                     *)

\* Consumers and credentials are created, and disabled, in both.
LEMMA ConsumerStepAlike ==
    ASSUME PairsInv, CreateConsumer \/ DisableConsumer \/ CreateCredential
    PROVE  PairsInv'
<1>0. Shapes /\ ConsumersAlike /\ pg.consumers = mem.consumers /\ pg.credentials = mem.credentials
  BY DEF PairsInv, ConsumersAlike
<1>n. stored + 1 \in Nat
  BY <1>0 DEF Shapes
<1>1. ASSUME NEW t \in {"consumers", "credentials"}, NEW v, NEW w, v = w,
             t = "consumers" => w \in Seq(ConsumerRow),
             t = "credentials" => w \in Seq(CredentialRow),
             pg' = [pg EXCEPT ![t] = v], mem' = [mem EXCEPT ![t] = w],
             answer'.pg = answer'.mem, Keeps \/ Creates
      PROVE  PairsInv'
  <2>1. t \in Tables
    BY DEF Tables
  <2>2. /\ DOMAIN pg' = Tables /\ DOMAIN mem' = Tables \cup {"claimed"}
        /\ pg'[t] = v /\ mem'[t] = w
        /\ \A u \in Tables \ {t} : pg'[u] = pg[u] /\ mem'[u] = mem[u]
        /\ mem'.claimed = mem.claimed
    BY <1>0, <1>1, <2>1, OneTable
  <2>3. Grows /\ Shapes'
    BY <1>0, <1>1, <2>2, GrowsSo, ShapesSo
  <2>4. ConsumersAlike'
    <3>1. CASE t = "consumers"
      <4>1. /\ pg'.consumers = v /\ mem'.consumers = w /\ w \in Seq(ConsumerRow)
            /\ pg'.credentials = pg.credentials /\ mem'.credentials = mem.credentials
        BY <1>1, <2>2, <3>1 DEF Tables
      <4> QED
        BY <1>0, <1>1, <4>1 DEF ConsumersAlike
    <3>2. CASE t = "credentials"
      <4>1. /\ pg'.credentials = v /\ mem'.credentials = w /\ w \in Seq(CredentialRow)
            /\ pg'.consumers = pg.consumers /\ mem'.consumers = mem.consumers
        BY <1>1, <2>2, <3>2 DEF Tables
      <4> QED
        BY <1>0, <1>1, <4>1 DEF ConsumersAlike
    <3> QED
      BY <3>1, <3>2
  <2>5. OthersStay({"consumers", "credentials"})
    BY <2>2 DEF OthersStay
  <2> QED
    BY <1>1, <2>2, <2>3, <2>4, <2>5, ConsumerSide
<1>2. CASE CreateConsumer
  <2> DEFINE r == [id |-> stored + 1, disabled |-> FALSE]
  <2>1. /\ Same([pg EXCEPT !.consumers = Append(@, r)], [mem EXCEPT !.consumers = Append(@, r)])
        /\ Creates
    BY <1>2 DEF CreateConsumer
  <2>2. r \in ConsumerRow
    BY <1>n DEF ConsumerRow
  <2> HIDE DEF r
  <2>3. Append(mem.consumers, r) \in Seq(ConsumerRow)
    BY <1>0, <2>2, AppendProperties DEF ConsumersAlike
  <2>4. answer'.pg = answer'.mem
    BY <2>1 DEF Both, Same
  <2>5. /\ pg' = [pg EXCEPT !["consumers"] = Append(pg.consumers, r)]
        /\ mem' = [mem EXCEPT !["consumers"] = Append(mem.consumers, r)]
    BY <2>1 DEF Both, Same
  <2> QED
    BY <1>0, <1>1, <2>1, <2>3, <2>4, <2>5
<1>3. CASE DisableConsumer
  <2>1. PICK id \in Ids(pg.consumers) :
          /\ Same([pg EXCEPT !.consumers = Updated(@, id, "disabled", TRUE)],
                  [mem EXCEPT !.consumers = Updated(@, id, "disabled", TRUE)])
          /\ Keeps
    BY <1>3 DEF DisableConsumer
  <2>2. \A r \in ConsumerRow : [r EXCEPT !["disabled"] = TRUE] \in ConsumerRow
    BY DEF ConsumerRow
  <2>3. Updated(mem.consumers, id, "disabled", TRUE) \in Seq(ConsumerRow)
    BY <1>0, <2>2, UpdatedParts DEF ConsumersAlike
  <2>4. answer'.pg = answer'.mem
    BY <2>1 DEF Both, Same
  <2>5. /\ pg' = [pg EXCEPT !["consumers"] = Updated(pg.consumers, id, "disabled", TRUE)]
        /\ mem' = [mem EXCEPT !["consumers"] = Updated(mem.consumers, id, "disabled", TRUE)]
    BY <2>1 DEF Both, Same
  <2> QED
    BY <1>0, <1>1, <2>1, <2>3, <2>4, <2>5
<1>4. CASE CreateCredential
  <2>1. PICK c \in Ids(pg.consumers), hash \in Digests, type \in {"bearer", "hmac"} :
          LET r == [id |-> stored + 1, consumer |-> c, type |-> type, hash |-> hash]
          IN  /\ Same([pg EXCEPT !.credentials = Append(@, r)],
                      [mem EXCEPT !.credentials = Append(@, r)])
              /\ Creates
    BY <1>4 DEF CreateCredential
  <2> DEFINE r == [id |-> stored + 1, consumer |-> c, type |-> type, hash |-> hash]
  <2>2. c \in Nat
    <3>1. PICK i \in 1 .. Len(mem.consumers) : c = mem.consumers[i].id
      BY <1>0, <2>1 DEF Ids
    <3>2. mem.consumers[i] \in ConsumerRow
      BY <1>0 DEF ConsumersAlike
    <3> QED
      BY <3>1, <3>2 DEF ConsumerRow
  <2>3. r \in CredentialRow
    BY <1>n, <2>2 DEF CredentialRow
  <2>4. /\ pg' = [pg EXCEPT !["credentials"] = Append(pg.credentials, r)]
        /\ mem' = [mem EXCEPT !["credentials"] = Append(mem.credentials, r)]
        /\ Creates /\ answer'.pg = answer'.mem
    BY <2>1 DEF Both, Same
  <2> HIDE DEF r
  <2>5. Append(mem.credentials, r) \in Seq(CredentialRow)
    BY <1>0, <2>3, AppendProperties DEF ConsumersAlike
  <2> QED
    BY <1>0, <1>1, <2>4, <2>5
<1> QED
  BY <1>2, <1>3, <1>4

\* Deliveries are created, and acknowledged, in both.
LEMMA DeliveryStepAlike ==
    ASSUME PairsInv, CreateDelivery \/ Acknowledge
    PROVE  PairsInv'
<1>0. /\ Shapes /\ DeliveriesAlike /\ pg.deliveries = mem.deliveries
      /\ mem.deliveries \in Seq(Delivery)
  BY DEF PairsInv, DeliveriesAlike
<1>n. stored \in Nat /\ stored + 1 \in Nat /\ \A r \in Delivery : r.id \in Int
  BY <1>0 DEF Shapes, Delivery
<1>1. ASSUME NEW v, NEW w, v = w, w \in Seq(Delivery), Rising(w), Below(w, stored'), Len(w) <= stored',
             pg' = [pg EXCEPT !["deliveries"] = v], mem' = [mem EXCEPT !["deliveries"] = w],
             answer'.pg = answer'.mem, Keeps \/ Creates
      PROVE  PairsInv'
  <2>1. "deliveries" \in Tables
    BY DEF Tables
  <2>2. /\ DOMAIN pg' = Tables /\ DOMAIN mem' = Tables \cup {"claimed"}
        /\ pg'.deliveries = v /\ mem'.deliveries = w
        /\ \A u \in Tables \ {"deliveries"} : pg'[u] = pg[u] /\ mem'[u] = mem[u]
        /\ mem'.claimed = mem.claimed
    BY <1>0, <1>1, <2>1, OneTable
  <2>3. Grows /\ Shapes'
    BY <1>0, <1>1, <2>2, GrowsSo, ShapesSo
  <2>4. DeliveriesAlike'
    BY <1>1, <2>2 DEF DeliveriesAlike
  <2>5. OthersStay({"deliveries"})
    BY <2>2 DEF OthersStay
  <2> QED
    BY <1>1, <2>2, <2>3, <2>4, <2>5, DeliverySide
<1>2. CASE CreateDelivery
  <2>1. PICK target \in Owners :
          LET r == [id |-> stored + 1, target |-> target, acked |-> FALSE]
          IN  /\ Same([pg EXCEPT !.deliveries = Append(@, r)],
                      [mem EXCEPT !.deliveries = Append(@, r)])
              /\ Creates
    BY <1>2 DEF CreateDelivery
  <2> DEFINE r == [id |-> stored + 1, target |-> target, acked |-> FALSE]
  <2>2. r \in Delivery /\ r.id = stored + 1
    BY <1>n DEF Delivery
  <2>3. /\ pg' = [pg EXCEPT !["deliveries"] = Append(pg.deliveries, r)]
        /\ mem' = [mem EXCEPT !["deliveries"] = Append(mem.deliveries, r)]
        /\ Creates /\ answer'.pg = answer'.mem
    BY <2>1 DEF Both, Same
  <2> HIDE DEF r
  <2>4. PICK d \in Seq(Delivery) : d = mem.deliveries
    BY <1>0
  <2>5. Rising(d) /\ Below(d, stored) /\ Len(d) <= stored /\ Len(d) \in Nat
    BY <1>0, <2>4 DEF DeliveriesAlike
  <2>6. Append(d, r) \in Seq(Delivery) /\ Len(Append(d, r)) = Len(d) + 1
    BY <2>2, AppendProperties
  <2>7. stored' = stored + 1
    BY <2>3 DEF Creates
  <2>8. Rising(Append(d, r))
    <3>1. \A x \in ToSet(d) : x.id < r.id
      BY <1>n, <2>2, <2>5 DEF Below
    <3> QED
      BY <1>n, <2>2, <2>5, <3>1, AppendRising
  <2>9. Below(Append(d, r), stored')
    <3>1. ToSet(Append(d, r)) = ToSet(d) \cup {r}
      BY <2>2, AppendSet
    <3> QED
      BY <1>n, <2>2, <2>5, <2>7, <3>1 DEF Below
  <2>10. Len(Append(d, r)) <= stored'
    BY <1>n, <2>5, <2>6, <2>7
  <2> QED
    BY <1>0, <1>1, <2>3, <2>4, <2>6, <2>8, <2>9, <2>10
<1>3. CASE Acknowledge
  <2> DEFINE AckedIn(s, id) == Has(s, id) /\ ~RowOf(s, id).acked
  <2>1. PICK id \in 1 .. stored :
          /\ Both([pg EXCEPT !.deliveries = Updated(@, id, "acked", TRUE)],
                  [mem EXCEPT !.deliveries = Updated(@, id, "acked", TRUE)],
                  IF AckedIn(pg.deliveries, id) THEN "ok" ELSE "error",
                  IF AckedIn(mem.deliveries, id) THEN "ok" ELSE "error")
          /\ Keeps
    BY <1>3 DEF Acknowledge
  <2> HIDE DEF AckedIn
  <2>2. /\ pg' = [pg EXCEPT !["deliveries"] = Updated(pg.deliveries, id, "acked", TRUE)]
        /\ mem' = [mem EXCEPT !["deliveries"] = Updated(mem.deliveries, id, "acked", TRUE)]
        /\ Keeps /\ answer'.pg = answer'.mem
    BY <1>0, <2>1 DEF Both
  <2>3. PICK d \in Seq(Delivery) : d = mem.deliveries
    BY <1>0
  <2>4. Rising(d) /\ Below(d, stored) /\ Len(d) <= stored /\ Len(d) \in Nat
    BY <1>0, <2>3 DEF DeliveriesAlike
  <2> DEFINE u == Updated(d, id, "acked", TRUE)
  <2>a. \A r \in Delivery : [r EXCEPT !["acked"] = TRUE] \in Delivery
    BY DEF Delivery
  <2>5. \A r \in Delivery : [r EXCEPT !["acked"] = TRUE].id = r.id
    BY DEF Delivery
  <2>6. /\ u \in Seq(Delivery) /\ Len(u) = Len(d)
        /\ \A i \in 1 .. Len(d) : u[i] = IF d[i].id = id THEN [d[i] EXCEPT !["acked"] = TRUE] ELSE d[i]
    <3>1. u \in Seq(Delivery)
      BY <2>a, UpdatedParts
    <3>a. Len(u) = Len(d)
      BY <2>4 DEF Updated
    <3>2. \A i \in 1 .. Len(d) : u[i] = IF d[i].id = id THEN [d[i] EXCEPT !["acked"] = TRUE] ELSE d[i]
      BY DEF Updated
    <3> QED
      BY <3>1, <3>a, <3>2
  <2> HIDE DEF u
  <2>7. \A i \in 1 .. Len(d) : u[i].id = d[i].id
    <3>1. \A i \in 1 .. Len(d) : d[i] \in Delivery
      OBVIOUS
    <3> QED
      BY <2>5, <2>6, <3>1
  <2>8. Rising(u)
    BY <2>4, <2>6, <2>7 DEF Rising
  <2>9. Below(u, stored)
    <3>1. ToSet(u) = {u[i] : i \in 1 .. Len(d)} /\ ToSet(d) = {d[i] : i \in 1 .. Len(d)}
      <4>1. ToSet(u) = {u[i] : i \in 1 .. Len(u)}
        BY <2>6, SetParts
      <4> QED
        BY <2>6, <4>1, SetParts
    <3> QED
      BY <2>4, <2>7, <3>1 DEF Below
  <2>10. stored' = stored
    BY <2>2 DEF Keeps
  <2> QED
    BY <1>0, <1>1, <2>2, <2>3, <2>4, <2>6, <2>8, <2>9, <2>10 DEF u
<1> QED
  BY <1>2, <1>3

-----------------------------------------------------------------------------
(* StoragePairs: the dispatch backends                                     *)

\* What a step of the dispatch backends must leave as it is.
LEMMA DispatchFrame ==
    ASSUME PairsInv, Grows, DOMAIN pg' = Tables, DOMAIN mem' = Tables \cup {"claimed"},
           answer'.pg = answer'.mem, SubsAlike', BuffersAlike', CompletionsAlike',
           OthersStay({"subs", "actions", "buffer", "completions"})
    PROVE  PairsInv'
<1>1. Shapes'
  BY ShapesSo
<1>2. (answer.pg = answer.mem)'
  OBVIOUS
<1> QED
  BY <1>1, <1>2, DispatchSide

\* Entries and completions are of ids that were there: others may come to be live.
LEMMA LiveMore ==
    ASSUME Shapes, Grows, BuffersAlike, CompletionsAlike,
           \A x \in ActionId : x[1] <= stored => (x \in LiveIds' <=> x \in LiveIds),
           pg'.buffer = pg.buffer, mem'.buffer = mem.buffer, mem'.claimed = mem.claimed,
           pg'.completions = pg.completions, mem'.completions = mem.completions
    PROVE  BuffersAlike' /\ CompletionsAlike'
<1> DEFINE b == mem.buffer
<1>1. b \in Seq(Entry) /\ ToSet(b) \subseteq Entry
  <2>1. b \in Seq(Entry)
    BY DEF BuffersAlike
  <2> QED
    BY <2>1, SetParts
<1>2. \A e \in ToSet(b) : e.action \in ActionId /\ e.action[1] <= stored
  BY <1>1 DEF BuffersAlike, Entry
<1>3. Open' = {e \in ToSet(b) : e.id \notin mem.claimed /\ e.action \in LiveIds'}
  BY DEF Open
<1>4. Open' = Open
  BY <1>2, <1>3 DEF Open
<1>5. BuffersAlike'
  <2>1. mem'.buffer \in Seq(Entry) /\ Rising(mem'.buffer)
    BY DEF BuffersAlike
  <2>2. /\ Below(mem'.buffer, stored')
        /\ \A e \in ToSet(mem'.buffer) : e.action[1] <= stored'
        /\ mem'.claimed \subseteq 1 .. stored'
    BY EntriesBefore
  <2>3. pg'.buffer = Kept(mem'.buffer, Open')
    BY <1>4 DEF BuffersAlike
  <2> QED
    BY <2>1, <2>2, <2>3 DEF BuffersAlike
<1>6. CompletionsAlike'
  <2>1. \A k \in mem'.completions : k \in Events \X ActionId /\ k[2][1] <= stored'
    BY CompletionsBefore
  <2>2. \A k \in mem.completions : k[2] \in ActionId /\ k[2][1] <= stored
    BY DEF CompletionsAlike
  <2>3. \A k \in mem.completions : k[2] \in LiveIds' <=> k[2] \in LiveIds
    BY <2>2
  <2>4. pg'.completions = {k \in mem'.completions : k[2] \in LiveIds'}
    BY <2>3 DEF CompletionsAlike
  <2> QED
    BY <2>1, <2>4 DEF CompletionsAlike
<1> QED
  BY <1>5, <1>6

\* The elements of two sequences in a row.
LEMMA ConcatSet ==
    ASSUME NEW S, NEW s \in Seq(S), NEW t \in Seq(S)
    PROVE  s \o t \in Seq(S) /\ ToSet(s \o t) = ToSet(s) \cup ToSet(t)
<1>1. /\ s \o t \in Seq(S) /\ Len(s \o t) = Len(s) + Len(t)
      /\ \A i \in 1 .. Len(s) + Len(t) : (s \o t)[i] = IF i <= Len(s) THEN s[i] ELSE t[i - Len(s)]
  BY ConcatProperties
<1>2. Len(s) \in Nat /\ Len(t) \in Nat
  BY LenProperties
<1>3. /\ ToSet(s) = {s[i] : i \in 1 .. Len(s)} /\ ToSet(t) = {t[i] : i \in 1 .. Len(t)}
      /\ ToSet(s \o t) = {(s \o t)[i] : i \in 1 .. Len(s) + Len(t)}
  <2>1. ToSet(s) = {s[i] : i \in 1 .. Len(s)}
    BY SetParts
  <2>2. ToSet(t) = {t[i] : i \in 1 .. Len(t)}
    BY SetParts
  <2>3. ToSet(s \o t) = {(s \o t)[i] : i \in 1 .. Len(s \o t)}
    BY <1>1, SetParts
  <2> QED
    BY <1>1, <2>1, <2>2, <2>3
<1>4. \A x \in ToSet(s \o t) : x \in ToSet(s) \cup ToSet(t)
  <2> SUFFICES ASSUME NEW i \in 1 .. Len(s) + Len(t)
               PROVE  (s \o t)[i] \in ToSet(s) \cup ToSet(t)
    BY <1>3
  <2>1. CASE i <= Len(s)
    <3>1. i \in 1 .. Len(s)
      BY <1>2, <2>1
    <3> QED
      BY <1>1, <1>3, <2>1, <3>1
  <2>2. CASE ~(i <= Len(s))
    <3>1. i - Len(s) \in 1 .. Len(t)
      BY <1>2, <2>2
    <3> QED
      BY <1>1, <1>3, <2>2, <3>1
  <2> QED
    BY <2>1, <2>2
<1>5. \A i \in 1 .. Len(s) : s[i] \in ToSet(s \o t)
  <2> TAKE i \in 1 .. Len(s)
  <2>1. i \in 1 .. Len(s) + Len(t) /\ i <= Len(s)
    BY <1>2
  <2> QED
    BY <1>1, <1>3, <2>1
<1>6. \A i \in 1 .. Len(t) : t[i] \in ToSet(s \o t)
  <2> TAKE i \in 1 .. Len(t)
  <2>1. /\ Len(s) + i \in 1 .. Len(s) + Len(t) /\ ~(Len(s) + i <= Len(s))
        /\ (Len(s) + i) - Len(s) = i
    BY <1>2
  <2>2. (s \o t)[Len(s) + i] = t[i]
    BY <1>1, <2>1
  <2> QED
    BY <1>3, <2>1, <2>2
<1> QED
  BY <1>1, <1>3, <1>4, <1>5, <1>6

\* A subscription that is made brings actions with ids of its own.
LEMMA SubscribeAlike ==
    ASSUME PairsInv, SubscribeBoth
    PROVE  PairsInv'
<1>0. /\ Shapes /\ SubsAlike /\ BuffersAlike /\ CompletionsAlike /\ stored \in Nat
      /\ mem.subs \in Seq(Subscription) /\ mem.actions \in Seq(ActionRow)
      /\ pg.subs = mem.subs /\ pg.actions = mem.actions
  BY DEF PairsInv, Shapes, SubsAlike
<1>1. PICK owner \in Owners :
        /\ Same([pg EXCEPT !.subs = Append(@, NewSubscription(owner)),
                           !.actions = @ \o NewActions],
                [mem EXCEPT !.subs = Append(@, NewSubscription(owner)),
                            !.actions = @ \o NewActions])
        /\ Creates
  BY DEF SubscribeBoth
<1> DEFINE r == NewSubscription(owner)
           N == NewActions
<1>2. r \in Subscription
  BY <1>0 DEF NewSubscription, Subscription
<1>3. /\ N \in Seq(ActionRow)
      /\ \A a \in ToSet(N) : a.id \in ActionId /\ a.sub = stored + 1 /\ a.id[1] = a.sub
  <2>1. N \in [1 .. 2 -> ActionRow]
    BY <1>0 DEF NewActions, ActionRow, ActionId
  <2>2. N \in Seq(ActionRow) /\ Len(N) = 2
    BY <2>1, IsASeqFunction
  <2>3. \A i \in 1 .. 2 : N[i].sub = stored + 1 /\ N[i].id = <<stored + 1, i - 1>>
    BY DEF NewActions
  <2>4. \A i \in 1 .. 2 : N[i].id \in ActionId /\ N[i].id[1] = stored + 1
    <3> TAKE i \in 1 .. 2
    <3>1. stored + 1 \in Nat /\ i - 1 \in Nat
      BY <1>0
    <3>2. <<stored + 1, i - 1>> \in ActionId /\ <<stored + 1, i - 1>>[1] = stored + 1
      BY <3>1 DEF ActionId
    <3> QED
      BY <2>3, <3>2
  <2>5. ToSet(N) = {N[i] : i \in 1 .. Len(N)}
    BY <2>2, SetParts
  <2> QED
    BY <2>2, <2>3, <2>4, <2>5
<1>4. /\ pg' = [pg EXCEPT !.subs = Append(@, r), !.actions = @ \o N]
      /\ mem' = [mem EXCEPT !.subs = Append(@, r), !.actions = @ \o N]
      /\ answer'.pg = answer'.mem /\ Creates
  BY <1>1 DEF Same, Both
<1> HIDE DEF r, N
<1>5. /\ DOMAIN pg' = Tables /\ DOMAIN mem' = Tables \cup {"claimed"}
      /\ pg'.subs = Append(mem.subs, r) /\ mem'.subs = Append(mem.subs, r)
      /\ pg'.actions = mem.actions \o N /\ mem'.actions = mem.actions \o N
      /\ \A t \in Tables \ {"subs", "actions"} : pg'[t] = pg[t] /\ mem'[t] = mem[t]
      /\ mem'.claimed = mem.claimed
  BY <1>0, <1>4 DEF Shapes, Tables
<1>6. Grows /\ stored' = stored + 1
  <2>1. Grows
    BY <1>0, <1>4, GrowsSo
  <2> QED
    BY <1>4, <2>1 DEF Creates
<1>7. mem.actions \o N \in Seq(ActionRow) /\ ToSet(mem.actions \o N) = ToSet(mem.actions) \cup ToSet(N)
  BY <1>0, <1>3, ConcatSet
<1>8. SubsAlike'
  <2>1. Append(mem.subs, r) \in Seq(Subscription)
    BY <1>0, <1>2, AppendProperties
  <2>2. \A a \in ToSet(mem.actions) \cup ToSet(N) : a.id[1] = a.sub /\ a.sub <= stored'
    <3>1. \A a \in ToSet(mem.actions) : a.id[1] = a.sub /\ a.sub <= stored /\ a.sub \in Nat
      <4>1. ToSet(mem.actions) \subseteq ActionRow
        BY <1>0, SetParts
      <4> QED
        BY <1>0, <4>1 DEF SubsAlike, ActionRow
    <3>2. \A a \in ToSet(mem.actions) : a.sub <= stored'
      BY <1>0, <1>6, <3>1
    <3>3. \A a \in ToSet(N) : a.sub <= stored'
      BY <1>0, <1>3, <1>6
    <3> QED
      BY <1>3, <3>1, <3>2, <3>3
  <2> QED
    BY <1>5, <1>7, <2>1, <2>2 DEF SubsAlike
<1>9. \A x \in ActionId : x[1] <= stored => (x \in LiveIds' <=> x \in LiveIds)
  <2>1. LiveIds' = {a.id : a \in ToSet(mem.actions) \cup ToSet(N)}
    BY <1>5, <1>7 DEF LiveIds
  <2>2. \A a \in ToSet(N) : ~(a.id[1] <= stored)
    BY <1>0, <1>3
  <2> QED
    BY <2>1, <2>2 DEF LiveIds
<1>10. /\ pg'.buffer = pg.buffer /\ mem'.buffer = mem.buffer
       /\ pg'.completions = pg.completions /\ mem'.completions = mem.completions
  BY <1>5 DEF Tables
<1>11. BuffersAlike' /\ CompletionsAlike'
  BY <1>0, <1>5, <1>6, <1>9, <1>10, LiveMore
<1>12. OthersStay({"subs", "actions", "buffer", "completions"})
  BY <1>5 DEF OthersStay
<1> QED
  BY <1>4, <1>5, <1>6, <1>8, <1>11, <1>12, DispatchFrame

\* A subscription that is changed.
LEMMA UpdateSubscriptionAlike ==
    ASSUME PairsInv, UpdateSubscription
    PROVE  PairsInv'
<1>0. /\ Shapes /\ SubsAlike /\ BuffersAlike /\ CompletionsAlike /\ stored \in Nat
      /\ mem.subs \in Seq(Subscription) /\ mem.actions \in Seq(ActionRow)
      /\ pg.subs = mem.subs /\ pg.actions = mem.actions
  BY DEF PairsInv, Shapes, SubsAlike
<1>1. PICK id \in 1 .. stored, enabled \in BOOLEAN :
        /\ Both([pg EXCEPT !.subs = Updated(@, id, "enabled", enabled)],
                [mem EXCEPT !.subs = Updated(@, id, "enabled", enabled)],
                IF Has(pg.subs, id) THEN "ok" ELSE "error",
                IF Has(mem.subs, id) THEN "ok" ELSE "error")
        /\ Keeps
  BY DEF UpdateSubscription
<1> DEFINE u == Updated(mem.subs, id, "enabled", enabled)
<1>2. u \in Seq(Subscription)
  <2>1. \A r \in Subscription : [r EXCEPT !["enabled"] = enabled] \in Subscription
    BY DEF Subscription
  <2> QED
    BY <1>0, <2>1, UpdatedParts
<1>3. /\ pg' = [pg EXCEPT !["subs"] = u] /\ mem' = [mem EXCEPT !["subs"] = u]
      /\ answer'.pg = answer'.mem /\ Keeps
  BY <1>0, <1>1 DEF Both
<1> HIDE DEF u
<1>4. "subs" \in Tables
  BY DEF Tables
<1>5. /\ DOMAIN pg' = Tables /\ DOMAIN mem' = Tables \cup {"claimed"}
      /\ pg'["subs"] = u /\ mem'["subs"] = u
      /\ \A t \in Tables \ {"subs"} : pg'[t] = pg[t] /\ mem'[t] = mem[t]
      /\ mem'.claimed = mem.claimed
  BY <1>0, <1>3, <1>4, OneTable
<1>6. Grows /\ stored' = stored
  <2>1. Grows
    BY <1>0, <1>3, GrowsSo
  <2> QED
    BY <1>3, <2>1 DEF Keeps
<1>7. /\ pg'.buffer = pg.buffer /\ mem'.buffer = mem.buffer
      /\ pg'.completions = pg.completions /\ mem'.completions = mem.completions
      /\ pg'.actions = pg.actions /\ mem'.actions = mem.actions
  BY <1>5 DEF Tables
<1>8. SubsAlike'
  BY <1>0, <1>2, <1>5, <1>6, <1>7 DEF SubsAlike
<1>9. LiveIds' = LiveIds
  BY <1>7 DEF LiveIds
<1>10. BuffersAlike' /\ CompletionsAlike'
  BY <1>0, <1>5, <1>6, <1>7, <1>9, BuffersKept, CompletionsKept
<1>11. OthersStay({"subs", "actions", "buffer", "completions"})
  BY <1>5 DEF OthersStay
<1> QED
  BY <1>3, <1>5, <1>6, <1>8, <1>10, <1>11, DispatchFrame

\* A subscription that goes takes its actions along, and in PostgreSQL what is theirs.
LEMMA UnsubscribeAlike ==
    ASSUME PairsInv, UnsubscribeBoth
    PROVE  PairsInv'
<1>0. /\ Shapes /\ SubsAlike /\ BuffersAlike /\ CompletionsAlike /\ stored \in Nat
      /\ mem.subs \in Seq(Subscription) /\ mem.actions \in Seq(ActionRow)
      /\ pg.subs = mem.subs /\ pg.actions = mem.actions
  BY DEF PairsInv, Shapes, SubsAlike
<1>1. PICK id \in Ids(pg.subs) : Same(PgUnsubscribe(id), MemoryUnsubscribe(id)) /\ Keeps
  BY DEF UnsubscribeBoth
<1> DEFINE acts == mem.actions
           b == mem.buffer
           ids == {a.id : a \in {a \in ToSet(acts) : a.sub = id}}
           others == Dropped(mem.subs, {id})
           rest == Kept(acts, {a \in ToSet(acts) : a.sub # id})
           R == {e \in ToSet(pg.buffer) : e.action \notin ids}
<1>2. /\ pg' = [pg EXCEPT !.subs = others, !.actions = rest, !.buffer = Kept(@, R),
                          !.completions = {k \in @ : k[2] \notin ids}]
      /\ mem' = [mem EXCEPT !.subs = others, !.actions = rest]
      /\ answer'.pg = answer'.mem /\ Keeps
  BY <1>0, <1>1 DEF Same, Both, PgUnsubscribe, MemoryUnsubscribe
<1>3. others \in Seq(Subscription)
  BY <1>0, KeptRows DEF Dropped
<1>4. /\ rest \in Seq(ActionRow) /\ ToSet(rest) = {a \in ToSet(acts) : a.sub # id}
  <2>1. rest \in Seq(ActionRow)
    BY <1>0, KeptRows
  <2>2. ToSet(rest) = ToSet(acts) \cap {a \in ToSet(acts) : a.sub # id}
    BY <1>0, KeptSet
  <2> QED
    BY <2>1, <2>2
<1> HIDE DEF others, rest, R, ids
<1>5. /\ DOMAIN pg' = Tables /\ DOMAIN mem' = Tables \cup {"claimed"}
      /\ pg'.subs = others /\ mem'.subs = others /\ pg'.actions = rest /\ mem'.actions = rest
      /\ pg'.buffer = Kept(pg.buffer, R) /\ mem'.buffer = b
      /\ pg'.completions = {k \in pg.completions : k[2] \notin ids}
      /\ mem'.completions = mem.completions /\ mem'.claimed = mem.claimed
  BY <1>0, <1>2 DEF Shapes, Tables
<1>6. OthersStay({"subs", "actions", "buffer", "completions"})
  BY <1>0, <1>2 DEF Shapes, Tables, OthersStay
<1>7. Grows /\ stored' = stored
  <2>1. Grows
    BY <1>0, <1>2, GrowsSo
  <2> QED
    BY <1>2, <2>1 DEF Keeps
<1>8. SubsAlike'
  BY <1>0, <1>3, <1>4, <1>5, <1>7 DEF SubsAlike
<1>9. \A a \in ToSet(acts) : a.id[1] = a.sub
  BY <1>0 DEF SubsAlike
<1>10. LiveIds' = LiveIds \ ids
  <2>1. LiveIds' = {a.id : a \in {a \in ToSet(acts) : a.sub # id}}
    BY <1>4, <1>5 DEF LiveIds
  <2>2. LiveIds = {a.id : a \in ToSet(acts)}
    BY DEF LiveIds
  <2> QED
    BY <1>9, <2>1, <2>2 DEF ids
<1>11. Open' = {e \in ToSet(b) : e.id \notin mem.claimed /\ e.action \in LiveIds /\ e.action \notin ids}
  BY <1>5, <1>10 DEF Open
<1>12. b \in Seq(Entry) /\ pg.buffer = Kept(b, Open)
  BY <1>0 DEF BuffersAlike
<1>13. pg'.buffer = Kept(mem'.buffer, Open')
  <2>1. ToSet(pg.buffer) = ToSet(b) \cap Open
    BY <1>12, KeptSet
  <2>2. ToSet(b) \cap Open \cap R = ToSet(b) \cap Open'
    BY <1>11, <2>1 DEF Open, R
  <2>3. Kept(Kept(b, Open), R) = Kept(b, Open')
    BY <1>12, <2>2, KeptBoth
  <2> QED
    BY <1>5, <1>12, <2>3
<1>14. BuffersAlike'
  BY <1>0, <1>5, <1>7, <1>13 DEF BuffersAlike
<1>15. CompletionsAlike'
  BY <1>0, <1>5, <1>7, <1>10 DEF CompletionsAlike
<1> QED
  BY <1>2, <1>5, <1>6, <1>7, <1>8, <1>14, <1>15, DispatchFrame

\* An entry is put into both.
LEMMA BufferAlike ==
    ASSUME PairsInv, BufferEvent
    PROVE  PairsInv'
<1>0. /\ Shapes /\ SubsAlike /\ BuffersAlike /\ CompletionsAlike /\ stored \in Nat
      /\ mem.actions \in Seq(ActionRow) /\ pg.actions = mem.actions
  BY DEF PairsInv, Shapes, SubsAlike
<1>1. PICK a \in ToSet(pg.actions) :
        LET e == [id |-> stored + 1, action |-> a.id]
        IN  /\ Same([pg EXCEPT !.buffer = Append(@, e)], [mem EXCEPT !.buffer = Append(@, e)])
            /\ Creates
  BY DEF BufferEvent
<1> DEFINE e == [id |-> stored + 1, action |-> a.id]
           b == mem.buffer
<1>2. a \in ActionRow /\ a.id[1] <= stored /\ a.id \in LiveIds
  <2>1. ToSet(mem.actions) \subseteq ActionRow
    BY <1>0, SetParts
  <2> QED
    BY <1>0, <2>1 DEF SubsAlike, LiveIds
<1>3. /\ e \in Entry /\ e.id = stored + 1 /\ e.action = a.id
  BY <1>0, <1>2 DEF Entry, ActionRow
<1>4. /\ pg' = [pg EXCEPT !["buffer"] = Append(pg.buffer, e)]
      /\ mem' = [mem EXCEPT !["buffer"] = Append(b, e)]
      /\ answer'.pg = answer'.mem /\ Creates
  BY <1>1 DEF Same, Both
<1> HIDE DEF e
<1>5. "buffer" \in Tables
  BY DEF Tables
<1>6. /\ DOMAIN pg' = Tables /\ DOMAIN mem' = Tables \cup {"claimed"}
      /\ pg'["buffer"] = Append(pg.buffer, e) /\ mem'["buffer"] = Append(b, e)
      /\ \A t \in Tables \ {"buffer"} : pg'[t] = pg[t] /\ mem'[t] = mem[t]
      /\ mem'.claimed = mem.claimed
  BY <1>0, <1>4, <1>5, OneTable
<1>7. Grows /\ stored' = stored + 1
  <2>1. Grows
    BY <1>0, <1>4, GrowsSo
  <2> QED
    BY <1>4, <2>1 DEF Creates
<1>8. /\ pg'.subs = pg.subs /\ mem'.subs = mem.subs
      /\ pg'.completions = pg.completions /\ mem'.completions = mem.completions
      /\ pg'.actions = pg.actions /\ mem'.actions = mem.actions
  BY <1>6 DEF Tables
<1>9. SubsAlike' /\ LiveIds' = LiveIds
  BY <1>0, <1>7, <1>8, SubsKept
<1>10. CompletionsAlike'
  BY <1>0, <1>7, <1>8, <1>9, CompletionsKept
<1>11. /\ b \in Seq(Entry) /\ Rising(b) /\ Below(b, stored) /\ mem.claimed \subseteq 1 .. stored
       /\ pg.buffer = Kept(b, Open) /\ \A x \in ToSet(b) : x.action[1] <= stored
  BY <1>0 DEF BuffersAlike
<1>12. Append(b, e) \in Seq(Entry) /\ ToSet(Append(b, e)) = ToSet(b) \cup {e}
  BY <1>3, <1>11, AppendProperties, AppendSet
<1>13. Rising(Append(b, e))
  <2>1. \A r \in Entry : r.id \in Int
    BY DEF Entry
  <2>2. \A r \in ToSet(b) : r.id < e.id
    BY <1>0, <1>3, <1>11 DEF Below
  <2> QED
    BY <1>3, <1>11, <2>1, <2>2, AppendRising
<1>14. Below(Append(b, e), stored')
  BY <1>0, <1>3, <1>7, <1>11, <1>12 DEF Below
<1>15. \A x \in ToSet(Append(b, e)) : x.action[1] <= stored'
  <2>1. \A x \in ToSet(b) : x.action[1] <= stored'
    BY <1>0, <1>7, EntriesBefore
  <2>2. e.action[1] <= stored'
    <3>1. a.id[1] \in Nat
      BY <1>2 DEF ActionRow, ActionId
    <3> QED
      BY <1>0, <1>2, <1>3, <1>7, <3>1
  <2> QED
    BY <1>12, <2>1, <2>2
<1>16. Open' = Open \cup {e}
  <2>1. Open' = {x \in ToSet(b) \cup {e} : x.id \notin mem.claimed /\ x.action \in LiveIds}
    BY <1>6, <1>9, <1>12 DEF Open
  <2>2. e.id \notin mem.claimed /\ e.action \in LiveIds
    BY <1>0, <1>2, <1>3, <1>11
  <2> QED
    BY <2>1, <2>2 DEF Open
<1>17. Append(pg.buffer, e) = Kept(Append(b, e), Open')
  <2>1. Kept(Append(b, e), Open') = Append(Kept(b, Open'), e)
    BY <1>3, <1>11, <1>16, KeptAppend
  <2>2. e \notin ToSet(b)
    BY <1>0, <1>3, <1>11 DEF Below
  <2>3. ToSet(b) \cap Open' = ToSet(b) \cap Open
    BY <1>16, <2>2
  <2>4. Kept(b, Open') = Kept(b, Open)
    BY <1>11, <2>3, KeptAlike
  <2> QED
    BY <1>11, <2>1, <2>4
<1>18. mem'.claimed \subseteq 1 .. stored'
  BY <1>0, <1>6, <1>7, <1>11
<1>19. BuffersAlike'
  BY <1>6, <1>12, <1>13, <1>14, <1>15, <1>17, <1>18 DEF BuffersAlike
<1>20. OthersStay({"subs", "actions", "buffer", "completions"})
  BY <1>6 DEF OthersStay
<1> QED
  BY <1>4, <1>6, <1>7, <1>9, <1>10, <1>19, <1>20, DispatchFrame

\* The entries of an action that exists: those in PostgreSQL are those in memory that
\* are not claimed.
LEMMA EntriesAlike ==
    ASSUME PairsInv, NEW a \in ToSet(pg.actions)
    PROVE  Kept(pg.buffer, EntriesOf(pg.buffer, a.id))
             = Kept(mem.buffer, {e \in EntriesOf(mem.buffer, a.id) : e.id \notin mem.claimed})
<1>1. /\ mem.buffer \in Seq(Entry) /\ pg.buffer = Kept(mem.buffer, Open) /\ a.id \in LiveIds
  BY DEF PairsInv, BuffersAlike, SubsAlike, LiveIds
<1> DEFINE b == mem.buffer
           P == EntriesOf(pg.buffer, a.id)
           M == {e \in EntriesOf(b, a.id) : e.id \notin mem.claimed}
<1>2. ToSet(pg.buffer) = ToSet(b) \cap Open
  BY <1>1, KeptSet
<1>3. ToSet(b) \cap Open \cap P = ToSet(b) \cap M
  BY <1>1, <1>2 DEF EntriesOf, Open
<1> HIDE DEF P, M
<1>4. Kept(Kept(b, Open), P) = Kept(b, M)
  BY <1>1, <1>3, KeptBoth
<1> QED
  BY <1>1, <1>4 DEF P, M

\* A batch is the same in both, and its entries are gone from one and claimed in the other.
LEMMA ClaimAlike ==
    ASSUME PairsInv, ClaimBatch
    PROVE  PairsInv'
<1>0. /\ Shapes /\ SubsAlike /\ BuffersAlike /\ CompletionsAlike /\ stored \in Nat
      /\ pg.actions = mem.actions /\ Limits \subseteq Nat
  BY StorageAssumption DEF PairsInv, Shapes, SubsAlike
<1>1. PICK a \in ToSet(pg.actions), limit \in Limits :
        LET p == PgClaim(a.id, limit)
            m == MemoryClaim(a.id, limit)
        IN  /\ Both([pg EXCEPT !.buffer = Dropped(@, Ids(p))],
                    [mem EXCEPT !.claimed = @ \union Ids(m)], p, m)
            /\ lent' = m /\ UNCHANGED stored
  BY DEF ClaimBatch
<1> DEFINE m == MemoryClaim(a.id, limit)
           b == mem.buffer
           I == Ids(m)
           R == {r \in ToSet(pg.buffer) : r.id \notin I}
<1>2. PgClaim(a.id, limit) = m
  BY EntriesAlike DEF PgClaim, MemoryClaim
<1>3. /\ pg' = [pg EXCEPT !.buffer = Kept(pg.buffer, R)]
      /\ mem' = [mem EXCEPT !.claimed = mem.claimed \union I]
      /\ answer'.pg = answer'.mem /\ stored' = stored
  BY <1>1, <1>2 DEF Both, Dropped
<1>4. /\ b \in Seq(Entry) /\ pg.buffer = Kept(b, Open) /\ Below(b, stored)
      /\ mem.claimed \subseteq 1 .. stored
  BY <1>0 DEF BuffersAlike
<1>5. I \subseteq 1 .. stored
  <2> DEFINE k == Kept(b, {e \in EntriesOf(b, a.id) : e.id \notin mem.claimed})
  <2>1. k \in Seq(Entry) /\ ToSet(k) \subseteq ToSet(b)
    BY <1>4, KeptRows, KeptSet
  <2>2. m = First(k, limit) /\ limit \in Nat
    BY <1>0 DEF MemoryClaim
  <2> HIDE DEF k, m
  <2>3. /\ m \in Seq(Entry) /\ Len(m) = (IF limit < Len(k) THEN limit ELSE Len(k))
        /\ \A i \in 1 .. Len(m) : m[i] = k[i]
    BY <2>1, <2>2, FirstParts
  <2>4. Len(k) \in Nat /\ Len(m) <= Len(k) /\ Len(m) \in Nat
    BY <2>1, <2>2, <2>3
  <2>5. ToSet(k) = {k[i] : i \in 1 .. Len(k)}
    BY <2>1, SetParts
  <2>6. \A i \in 1 .. Len(m) : m[i] \in ToSet(b)
    <3> TAKE i \in 1 .. Len(m)
    <3>1. i \in 1 .. Len(k)
      BY <2>4
    <3> QED
      BY <2>1, <2>3, <2>5, <3>1
  <2>7. \A r \in ToSet(b) : r.id \in 1 .. stored
    BY <1>4 DEF Below
  <2> QED
    BY <2>6, <2>7 DEF Ids
<1> HIDE DEF I, R
<1>6. /\ DOMAIN pg' = Tables /\ DOMAIN mem' = Tables \cup {"claimed"}
      /\ pg'.buffer = Kept(pg.buffer, R) /\ mem'.buffer = b
      /\ mem'.claimed = mem.claimed \cup I
      /\ \A t \in Tables \ {"buffer"} : pg'[t] = pg[t] /\ mem'[t] = mem[t]
  BY <1>0, <1>3 DEF Shapes, Tables
<1>7. Grows
  BY <1>0, <1>3, GrowsSo
<1>8. /\ pg'.subs = pg.subs /\ mem'.subs = mem.subs
      /\ pg'.completions = pg.completions /\ mem'.completions = mem.completions
      /\ pg'.actions = pg.actions /\ mem'.actions = mem.actions
  BY <1>6 DEF Tables
<1>9. SubsAlike' /\ LiveIds' = LiveIds
  BY <1>0, <1>7, <1>8, SubsKept
<1>10. CompletionsAlike'
  BY <1>0, <1>7, <1>8, <1>9, CompletionsKept
<1>11. pg'.buffer = Kept(mem'.buffer, Open')
  <2>1. ToSet(pg.buffer) = ToSet(b) \cap Open
    BY <1>4, KeptSet
  <2>2. Open' = {e \in ToSet(b) : e.id \notin mem.claimed \cup I /\ e.action \in LiveIds}
    BY <1>6, <1>9 DEF Open
  <2>3. ToSet(b) \cap Open \cap R = ToSet(b) \cap Open'
    BY <2>1, <2>2 DEF Open, R
  <2>4. Kept(Kept(b, Open), R) = Kept(b, Open')
    BY <1>4, <2>3, KeptBoth
  <2> QED
    BY <1>4, <1>6, <2>4
<1>12. mem'.claimed \subseteq 1 .. stored
  BY <1>4, <1>5, <1>6
<1>13. BuffersAlike'
  BY <1>0, <1>3, <1>6, <1>11, <1>12 DEF BuffersAlike
<1>14. OthersStay({"subs", "actions", "buffer", "completions"})
  BY <1>6 DEF OthersStay
<1> QED
  BY <1>3, <1>6, <1>7, <1>9, <1>10, <1>13, <1>14, DispatchFrame

\* A batch that is confirmed is gone from both, and is no longer claimed.
LEMMA ConfirmAlike ==
    ASSUME PairsInv, ConfirmBatch
    PROVE  PairsInv'
<1>0. /\ Shapes /\ SubsAlike /\ BuffersAlike /\ CompletionsAlike /\ stored \in Nat
  BY DEF PairsInv, Shapes
<1> DEFINE b == mem.buffer
           L == Ids(lent)
           P == {r \in ToSet(pg.buffer) : r.id \notin L}
           M == {r \in ToSet(b) : r.id \notin L}
<1>1. /\ pg' = [pg EXCEPT !.buffer = Kept(pg.buffer, P)]
      /\ mem' = [mem EXCEPT !.buffer = Kept(b, M), !.claimed = mem.claimed \ L]
      /\ answer'.pg = answer'.mem /\ stored' = stored
  BY DEF ConfirmBatch, Same, Both, Dropped
<1> HIDE DEF L
<1>2. /\ b \in Seq(Entry) /\ Rising(b) /\ pg.buffer = Kept(b, Open) /\ Below(b, stored)
      /\ mem.claimed \subseteq 1 .. stored /\ \A e \in ToSet(b) : e.action[1] <= stored
  BY <1>0 DEF BuffersAlike
<1>3. /\ Kept(b, M) \in Seq(Entry) /\ ToSet(Kept(b, M)) = M
  <2>1. ToSet(Kept(b, M)) = ToSet(b) \cap M
    BY <1>2, KeptSet
  <2> QED
    BY <1>2, <2>1, KeptRows
<1>4. Rising(Kept(b, M))
  <2>1. \A r \in Entry : r.id \in Int
    BY DEF Entry
  <2> QED
    BY <1>2, <2>1, KeptRising
<1>5. M \subseteq ToSet(b)
  OBVIOUS
<1> HIDE DEF P, M
<1>6. /\ DOMAIN pg' = Tables /\ DOMAIN mem' = Tables \cup {"claimed"}
      /\ pg'.buffer = Kept(pg.buffer, P) /\ mem'.buffer = Kept(b, M)
      /\ mem'.claimed = mem.claimed \ L
      /\ \A t \in Tables \ {"buffer"} : pg'[t] = pg[t] /\ mem'[t] = mem[t]
  BY <1>0, <1>1 DEF Shapes, Tables
<1>7. Grows
  BY <1>0, <1>1, GrowsSo
<1>8. /\ pg'.subs = pg.subs /\ mem'.subs = mem.subs
      /\ pg'.completions = pg.completions /\ mem'.completions = mem.completions
      /\ pg'.actions = pg.actions /\ mem'.actions = mem.actions
  BY <1>6 DEF Tables
<1>9. SubsAlike' /\ LiveIds' = LiveIds
  BY <1>0, <1>7, <1>8, SubsKept
<1>10. CompletionsAlike'
  BY <1>0, <1>7, <1>8, <1>9, CompletionsKept
<1>11. pg'.buffer = Kept(mem'.buffer, Open')
  <2> DEFINE T == {e \in ToSet(b) : e.id \notin mem.claimed /\ e.action \in LiveIds /\ e.id \notin L}
  <2>1. ToSet(pg.buffer) = ToSet(b) \cap Open
    BY <1>2, KeptSet
  <2>2. Open' = {e \in M : e.id \notin mem.claimed \ L /\ e.action \in LiveIds}
    BY <1>3, <1>6, <1>9 DEF Open
  <2>3. ToSet(b) \cap Open \cap P = ToSet(b) \cap T
    BY <2>1 DEF Open, P
  <2>4. ToSet(b) \cap M \cap Open' = ToSet(b) \cap T
    BY <2>2 DEF M
  <2> HIDE DEF T
  <2>5. Kept(Kept(b, Open), P) = Kept(b, T)
    BY <1>2, <2>3, KeptBoth
  <2>6. Kept(Kept(b, M), Open') = Kept(b, T)
    BY <1>2, <2>4, KeptBoth
  <2> QED
    BY <1>2, <1>6, <2>5, <2>6
<1>12. Below(Kept(b, M), stored) /\ mem.claimed \ L \subseteq 1 .. stored
  BY <1>2, <1>3, <1>5 DEF Below
<1>13. BuffersAlike'
  <2>1. mem'.buffer \in Seq(Entry) /\ Rising(mem'.buffer) /\ Below(mem'.buffer, stored')
    BY <1>1, <1>3, <1>4, <1>6, <1>12
  <2>2. \A e \in ToSet(mem'.buffer) : e.action[1] <= stored'
    BY <1>1, <1>2, <1>3, <1>5, <1>6
  <2>3. mem'.claimed \subseteq 1 .. stored'
    BY <1>1, <1>6, <1>12
  <2> QED
    BY <1>11, <2>1, <2>2, <2>3 DEF BuffersAlike
<1>14. OthersStay({"subs", "actions", "buffer", "completions"})
  BY <1>6 DEF OthersStay
<1> QED
  BY <1>1, <1>6, <1>7, <1>9, <1>10, <1>13, <1>14, DispatchFrame

\* A completion is recorded in both, of an action that exists.
LEMMA CompletionAlike ==
    ASSUME PairsInv, RecordCompletion
    PROVE  PairsInv'
<1>0. /\ Shapes /\ SubsAlike /\ BuffersAlike /\ CompletionsAlike /\ stored \in Nat
      /\ mem.actions \in Seq(ActionRow) /\ pg.actions = mem.actions
  BY DEF PairsInv, Shapes, SubsAlike
<1>1. PICK a \in ToSet(pg.actions), event \in Events :
        /\ Same([pg EXCEPT !.completions = @ \union {<<event, a.id>>}],
                [mem EXCEPT !.completions = @ \union {<<event, a.id>>}])
        /\ Keeps
  BY DEF RecordCompletion
<1> DEFINE k == <<event, a.id>>
<1>2. k \in Events \X ActionId /\ k[2] = a.id /\ a.id[1] <= stored /\ a.id \in LiveIds
  <2>1. ToSet(mem.actions) \subseteq ActionRow
    BY <1>0, SetParts
  <2> QED
    BY <1>0, <2>1 DEF SubsAlike, LiveIds, ActionRow
<1>3. /\ pg' = [pg EXCEPT !["completions"] = pg.completions \cup {k}]
      /\ mem' = [mem EXCEPT !["completions"] = mem.completions \cup {k}]
      /\ answer'.pg = answer'.mem /\ Keeps
  BY <1>1 DEF Same, Both
<1> HIDE DEF k
<1>5. "completions" \in Tables
  BY DEF Tables
<1>6. /\ DOMAIN pg' = Tables /\ DOMAIN mem' = Tables \cup {"claimed"}
      /\ pg'["completions"] = pg.completions \cup {k}
      /\ mem'["completions"] = mem.completions \cup {k}
      /\ \A t \in Tables \ {"completions"} : pg'[t] = pg[t] /\ mem'[t] = mem[t]
      /\ mem'.claimed = mem.claimed
  BY <1>0, <1>3, <1>5, OneTable
<1>7. Grows /\ stored' = stored
  <2>1. Grows
    BY <1>0, <1>3, GrowsSo
  <2> QED
    BY <1>3, <2>1 DEF Keeps
<1>8. /\ pg'.subs = pg.subs /\ mem'.subs = mem.subs
      /\ pg'.buffer = pg.buffer /\ mem'.buffer = mem.buffer
      /\ pg'.actions = pg.actions /\ mem'.actions = mem.actions
  BY <1>6 DEF Tables
<1>9. SubsAlike' /\ LiveIds' = LiveIds
  BY <1>0, <1>7, <1>8, SubsKept
<1>10. BuffersAlike'
  BY <1>0, <1>6, <1>7, <1>8, <1>9, BuffersKept
<1>11. CompletionsAlike'
  BY <1>0, <1>2, <1>6, <1>7, <1>9 DEF CompletionsAlike
<1>12. OthersStay({"subs", "actions", "buffer", "completions"})
  BY <1>6 DEF OthersStay
<1> QED
  BY <1>3, <1>6, <1>7, <1>9, <1>10, <1>11, <1>12, DispatchFrame

\* No step tells the stores apart.
LEMMA PairsInvStep == PairsInv /\ [PairsNext]_pairVars => PairsInv'
<1> SUFFICES ASSUME PairsInv, [PairsNext]_pairVars
             PROVE  PairsInv'
  OBVIOUS
<1>1. CASE DispatchStep
  BY <1>1, SourceStepAlike, SubscribeAlike, UpdateSubscriptionAlike, UnsubscribeAlike, BufferAlike,
     ClaimAlike, ConfirmAlike, CompletionAlike DEF DispatchStep
<1>2. CASE PrincipalStep
  BY <1>2, PrincipalStepAlike, RunStepAlike DEF PrincipalStep
<1>3. CASE ConsumerStep
  BY <1>3, ConsumerStepAlike DEF ConsumerStep
<1>4. CASE DeliveryStep
  BY <1>4, DeliveryStepAlike DEF DeliveryStep
<1>5. CASE UNCHANGED pairVars
  BY <1>5 DEF pairVars, PairsInv, Shapes, PrincipalsAlike, ConsumersAlike, DeliveriesAlike,
     SubsAlike, BuffersAlike, CompletionsAlike, Open, LiveIds
<1> QED
  BY <1>1, <1>2, <1>3, <1>4, <1>5 DEF PairsNext

-----------------------------------------------------------------------------
(* StoragePairs: what callers see                                          *)

\* The deliveries a page is of.
Listed(d, target, unread, cursor) ==
    {r \in ToSet(d) : r.target = target /\ (unread => ~r.acked) /\ r.id > cursor}

\* The loop over the dictionary, which stops taking at the limit, finds the page.
LEMMA PageAlike ==
    ASSUME PairsInv, NEW target, NEW unread \in BOOLEAN, NEW cursor \in Nat, NEW limit \in Nat
    PROVE  MemoryDeliveries(target, unread, cursor, limit)
             = PgDeliveries(target, unread, cursor, limit)
<1> DEFINE d == mem.deliveries
           n == Len(d)
           R == Listed(d, target, unread, cursor)
           Skip(i) == \/ d[i].target # target
                      \/ unread /\ d[i].acked
                      \/ d[i].id <= cursor
           body(f) == [i \in 0 .. n |->
                         IF i = 0 THEN <<>>
                         ELSE LET r == d[i]
                              IN  IF \/ Len(f[i - 1]) >= limit
                                     \/ r.target # target
                                     \/ unread /\ r.acked
                                     \/ r.id <= cursor
                                  THEN f[i - 1] ELSE Append(f[i - 1], r)]
           Take == CHOOSE f : f = body(f)
<1>1. MemoryDeliveries(target, unread, cursor, limit) = Take[n]
  BY DEF MemoryDeliveries
<1>2. d \in Seq(Delivery) /\ pg.deliveries = d
  BY DEF PairsInv, DeliveriesAlike
<1>3. PgDeliveries(target, unread, cursor, limit) = First(Kept(d, R), limit)
  BY <1>2 DEF PgDeliveries, Listed
<1> HIDE DEF d
<1>4. n \in Nat /\ \A i \in 1 .. n : d[i] \in Delivery
  BY <1>2
<1>5. ASSUME NEW i \in 1 .. n PROVE d[i] \in R <=> ~Skip(i)
  <2>1. d[i] \in ToSet(d)
    BY <1>2, SetParts
  <2>2. d[i].id \in Nat /\ d[i].acked \in BOOLEAN
    BY <1>4 DEF Delivery
  <2> QED
    BY <2>1, <2>2 DEF Listed
<1> HIDE DEF R, Skip
<1>6. PICK G : Keeping(G, d, R, Delivery) /\ Kept(d, R) = G[n]
  BY <1>2, KeptKeeping
<1>7. /\ G \in [0 .. n -> Seq(Delivery)] /\ G[0] = <<>>
      /\ \A i \in 1 .. n : G[i] = IF d[i] \in R THEN Append(G[i - 1], d[i]) ELSE G[i - 1]
  BY <1>6 DEF Keeping
<1> DEFINE step(f, i) == IF Len(f[i - 1]) >= limit \/ Skip(i) THEN f[i - 1] ELSE Append(f[i - 1], d[i])
<1>8. \A f : body(f) = [i \in 0 .. n |-> IF i = 0 THEN <<>> ELSE step(f, i)]
  BY DEF Skip
<1> HIDE DEF n, step
<1> DEFINE H == [i \in 0 .. n |-> First(G[i], limit)]
<1>9. H[0] = <<>>
  <2>1. First(<<>>, limit) = <<>>
    <3>1. PICK e \in Seq(Delivery) : e = <<>>
      BY EmptySeq
    <3>2. Len(e) = 0
      BY <3>1, EmptySeq
    <3>3. First(e, limit) = e
      <4>1. Len(e) <= limit
        BY <3>2
      <4> HIDE DEF H
      <4> QED
        BY <4>1, FirstAll
    <3> QED
      BY <3>1, <3>3
  <2> QED
    BY <1>4, <1>7, <2>1
<1>10. ASSUME NEW i \in 1 .. n PROVE H[i] = step(H, i)
  <2>1. i \in 0 .. n /\ i - 1 \in 0 .. n
    BY <1>4
  <2>2. H[i] = First(G[i], limit) /\ H[i - 1] = First(G[i - 1], limit)
    BY <2>1
  <2>3. G[i - 1] \in Seq(Delivery) /\ d[i] \in Delivery
    BY <1>4, <1>7, <2>1
  <2> HIDE DEF H
  <2>4. CASE Skip(i)
    <3>1. G[i] = G[i - 1]
      BY <1>5, <1>7, <2>4
    <3> QED
      BY <2>2, <2>4, <3>1 DEF step
  <2>5. CASE ~Skip(i)
    <3>1. G[i] = Append(G[i - 1], d[i])
      BY <1>5, <1>7, <2>5
    <3>2. First(G[i], limit) = IF Len(First(G[i - 1], limit)) >= limit THEN First(G[i - 1], limit)
                               ELSE Append(First(G[i - 1], limit), d[i])
      BY <2>3, <3>1, FirstAppend
    <3> QED
      BY <2>2, <2>5, <3>2 DEF step
  <2> QED
    BY <2>4, <2>5
<1>11. H = body(H)
  <2>1. H = [i \in 0 .. n |-> H[i]]
    OBVIOUS
  <2> HIDE DEF H, body
  <2>2. ASSUME NEW i \in 0 .. n PROVE H[i] = IF i = 0 THEN <<>> ELSE step(H, i)
    <3>1. CASE i = 0
      BY <1>9, <3>1
    <3>2. CASE i # 0
      <4>1. i \in 1 .. n
        BY <1>4, <3>2
      <4> QED
        BY <1>10, <3>2, <4>1
    <3> QED
      BY <3>1, <3>2
  <2>3. body(H) = [i \in 0 .. n |-> IF i = 0 THEN <<>> ELSE step(H, i)]
    BY <1>8
  <2> QED
    BY <2>1, <2>2, <2>3
<1>12. Take = body(Take)
  <2> HIDE DEF body, H
  <2> QED
    BY <1>11
<1> HIDE DEF Take, body
<1>13. /\ Take[0] = <<>>
       /\ \A i \in 1 .. n : Take[i] = step(Take, i)
  <2>1. Take = [i \in 0 .. n |-> IF i = 0 THEN <<>> ELSE step(Take, i)]
    BY <1>8, <1>12
  <2>2. 0 \in 0 .. n /\ \A i \in 1 .. n : i \in 0 .. n /\ i # 0
    BY <1>4
  <2> QED
    BY <2>1, <2>2
<1> HIDE DEF H
<1> DEFINE Z == {k \in Nat : k <= n => Take[k] = H[k]}
<1>14. 0 \in Z
  BY <1>9, <1>13
<1>15. ASSUME NEW k \in Nat, k < n, k \in Z PROVE k + 1 \in Z
  <2>1. k + 1 \in 1 .. n /\ k <= n /\ (k + 1) - 1 = k
    BY <1>4, <1>15
  <2>2. Take[k] = H[k]
    BY <1>15, <2>1
  <2>3. Take[k + 1] = step(Take, k + 1) /\ H[k + 1] = step(H, k + 1)
    BY <1>10, <1>13, <2>1
  <2>4. step(Take, k + 1) = step(H, k + 1)
    BY <2>1, <2>2 DEF step
  <2> QED
    BY <2>3, <2>4
<1>16. n \in Z
  <2> HIDE DEF Z
  <2> QED
    BY <1>4, <1>14, <1>15, Reaches
<1>17. Take[n] = H[n]
  BY <1>4, <1>16
<1>18. H[n] = First(G[n], limit)
  BY <1>4 DEF H
<1> QED
  BY <1>1, <1>3, <1>6, <1>17, <1>18

\* No more rows are kept than there are.
LEMMA KeptShorter ==
    ASSUME NEW S, \A r \in S : r.id \in Int, NEW R, NEW s \in Seq(S), Rising(s)
    PROVE  Len(Kept(s, R)) <= Len(s)
<1>1. Kept(s, R) \in Seq(S) /\ ToSet(Kept(s, R)) = ToSet(s) \cap R
  BY KeptRows, KeptSet
<1>2. Rising(Kept(s, R))
  BY KeptRising
<1>3. Cardinality(ToSet(Kept(s, R))) = Len(Kept(s, R))
  BY <1>1, <1>2, RisingCount
<1>4. IsFiniteSet(ToSet(s)) /\ Cardinality(ToSet(s)) = Len(s)
  BY RisingCount
<1>5. ToSet(s) \cap R \subseteq ToSet(s)
  OBVIOUS
<1>6. Cardinality(ToSet(s) \cap R) <= Cardinality(ToSet(s))
  BY <1>4, <1>5, FS_Subset
<1> QED
  BY <1>1, <1>3, <1>4, <1>6

\* The pages of the deliveries agree, and following the cursor misses nothing.
LEMMA DeliveriesSeen == PairsInv => DeliveryStoresAgree
<1> SUFFICES ASSUME PairsInv PROVE DeliveryStoresAgree
  OBVIOUS
<1> SUFFICES ASSUME NEW target \in Owners, NEW unread \in BOOLEAN, NEW cursor \in 0 .. stored,
                    NEW limit \in 1 .. MaxStored
             PROVE  LET page == PgDeliveries(target, unread, cursor, limit)
                    IN  /\ page = MemoryDeliveries(target, unread, cursor, limit)
                        /\ page # <<>> =>
                               page \o PgDeliveries(target, unread, Last(page).id, MaxStored)
                                   = PgDeliveries(target, unread, cursor, MaxStored)
  BY DEF DeliveryStoresAgree, PairsInv
<1> DEFINE d == mem.deliveries
           page == PgDeliveries(target, unread, cursor, limit)
           R(c) == Listed(d, target, unread, c)
           s == Kept(d, R(cursor))
<1>1. /\ d \in Seq(Delivery) /\ Rising(d) /\ pg.deliveries = d /\ stored \in Nat /\ MaxStored \in Nat
      /\ Len(d) <= stored /\ stored <= MaxStored
  BY StorageAssumption DEF PairsInv, Shapes, DeliveriesAlike
<1>2. cursor \in Nat /\ limit \in Nat
  BY <1>1
<1>3. page = MemoryDeliveries(target, unread, cursor, limit)
  BY <1>2, PageAlike
<1>4. \A c, l : PgDeliveries(target, unread, c, l) = First(Kept(d, R(c)), l)
  BY <1>1 DEF PgDeliveries, Listed
<1>5. ASSUME page # <<>>
      PROVE  page \o PgDeliveries(target, unread, Last(page).id, MaxStored)
               = PgDeliveries(target, unread, cursor, MaxStored)
  <2> DEFINE c == Last(page).id
  <2>0. page = First(s, limit)
    BY <1>4
  <2> HIDE DEF page, d, R
  <2>1. \A r \in Delivery : r.id \in Int
    BY DEF Delivery
  <2>2. s \in Seq(Delivery) /\ ToSet(s) = ToSet(d) \cap R(cursor) /\ Rising(s) /\ Len(s) <= Len(d)
    BY <1>1, <2>1, KeptRows, KeptSet, KeptRising, KeptShorter
  <2>3. Len(s) <= MaxStored
    <3>1. Len(s) \in Nat /\ Len(d) \in Nat
      BY <1>1, <2>2
    <3> QED
      BY <1>1, <2>2, <3>1
  <2> HIDE DEF s
  <2>4. /\ Last(page) \in ToSet(s)
        /\ page \o First(Kept(s, Beyond(Delivery, c)), MaxStored) = First(s, MaxStored)
    <3>1. First(s, limit) # <<>> /\ MaxStored \in Nat /\ s \in Seq(Delivery) /\ Rising(s)
      BY <1>1, <1>5, <2>0, <2>2
    <3>2. /\ Last(First(s, limit)) \in ToSet(s)
          /\ First(s, limit) \o First(Kept(s, Beyond(Delivery, Last(First(s, limit)).id)), MaxStored)
               = First(s, MaxStored)
      BY <1>2, <2>1, <2>3, <3>1, PageAndRest
    <3> QED
      BY <2>0, <3>2
  <2>5. c \in Nat /\ c > cursor
    <3>1. Last(page) \in Delivery
      BY <2>2, <2>4, SetParts
    <3> QED
      BY <2>2, <2>4, <3>1 DEF R, Listed, Delivery
  <2>6. ToSet(d) \cap R(cursor) \cap Beyond(Delivery, c) = ToSet(d) \cap R(c)
    <3>1. ToSet(d) \subseteq Delivery
      BY <1>1, SetParts
    <3>2. \A r \in ToSet(d) : r.id > c => r.id > cursor
      BY <1>2, <2>1, <2>5, <3>1
    <3> HIDE DEF c
    <3> QED
      BY <3>1, <3>2 DEF R, Listed, Beyond
  <2>7. Kept(s, Beyond(Delivery, c)) = Kept(d, R(c))
    BY <1>1, <2>6, KeptBoth DEF s
  <2> QED
    BY <1>4, <2>4, <2>7 DEF s
<1> QED
  BY <1>3, <1>5

\* Of the entries of an action, the ones claimed and the others are counted.
LEMMA PendingAlike ==
    ASSUME PairsInv, NEW a \in ToSet(pg.actions)
    PROVE  MemoryPending(a.id) = PgPending(a.id) + Cardinality(
               {e \in ToSet(mem.buffer) : e.action = a.id /\ e.id \in mem.claimed})
<1> DEFINE b == mem.buffer
           E == EntriesOf(b, a.id)
           M == {e \in E : e.id \notin mem.claimed}
           C == {e \in ToSet(b) : e.action = a.id /\ e.id \in mem.claimed}
<1>1. b \in Seq(Entry) /\ Rising(b) /\ \A r \in Entry : r.id \in Int
  BY DEF PairsInv, BuffersAlike, Entry
<1>2. /\ E \subseteq ToSet(b) /\ M \subseteq ToSet(b) /\ C \subseteq ToSet(b)
      /\ M \cup C = E /\ M \cap C = {}
  BY DEF EntriesOf
<1>3. MemoryPending(a.id) = Len(Kept(b, E)) /\ PgPending(a.id) = Len(Kept(b, M))
  BY EntriesAlike DEF MemoryPending, PgPending
<1> HIDE DEF b, E, M, C
<1>4. ASSUME NEW R \in SUBSET ToSet(b)
      PROVE  Len(Kept(b, R)) = Cardinality(R)
  <2>1. Kept(b, R) \in Seq(Entry) /\ ToSet(Kept(b, R)) = ToSet(b) \cap R /\ Rising(Kept(b, R))
    BY <1>1, KeptRows, KeptSet, KeptRising
  <2>2. ToSet(b) \cap R = R
    OBVIOUS
  <2> QED
    BY <1>1, <2>1, <2>2, RisingCount
<1>5. IsFiniteSet(ToSet(b))
  BY <1>1, RisingCount
<1>6. IsFiniteSet(M) /\ IsFiniteSet(C)
  BY <1>2, <1>5, FS_Subset
<1>7. Cardinality(M \cup C) = Cardinality(M) + Cardinality(C) - Cardinality(M \cap C)
  BY <1>6, FS_Union
<1>8. Cardinality(M) \in Nat /\ Cardinality(C) \in Nat
  BY <1>6, FS_CardinalityType
<1>9. Cardinality(E) = Cardinality(M) + Cardinality(C)
  <2>1. Cardinality(M \cap C) = 0
    BY <1>2, FS_EmptySet
  <2>2. Cardinality(E) = Cardinality(M) + Cardinality(C) - 0
    BY <1>2, <1>7, <2>1
  <2> QED
    BY <1>8, <2>2
<1> QED
  BY <1>2, <1>3, <1>4, <1>9 DEF C, b

\* The dispatch backends answer alike.
LEMMA DispatchSeen == PairsInv => DispatchStoresAgree
<1> SUFFICES ASSUME PairsInv PROVE DispatchStoresAgree
  OBVIOUS
<1>1. /\ answer.pg = answer.mem /\ pg.sources = mem.sources /\ pg.subs = mem.subs
      /\ pg.actions = mem.actions /\ mem.subs \in Seq(Subscription)
      /\ pg.completions = {k \in mem.completions : k[2] \in LiveIds}
  BY DEF PairsInv, PrincipalsAlike, SubsAlike, CompletionsAlike
<1>2. ASSUME NEW enabled \in BOOLEAN, NEW owners \in SUBSET Owners
      PROVE  PgSubscriptions(enabled, owners) = MemorySubscriptions(enabled, owners)
  <2> DEFINE s == mem.subs
             T == {r \in ToSet(s) : (enabled => r.enabled) /\ r.owner \in owners}
             Q == {r \in ToSet(s) : enabled => r.enabled}
             R == {r \in ToSet(Kept(s, Q)) : r.owner \in owners}
  <2>1. ToSet(Kept(s, Q)) = ToSet(s) \cap Q
    BY <1>1, KeptSet
  <2>2. ToSet(s) \cap Q \cap R = ToSet(s) \cap T
    BY <2>1
  <2>3. PgSubscriptions(enabled, owners) = Kept(s, T)
    BY <1>1 DEF PgSubscriptions
  <2>4. MemorySubscriptions(enabled, owners) = Kept(Kept(s, Q), R)
    BY DEF MemorySubscriptions
  <2> HIDE DEF T, Q, R
  <2>5. Kept(Kept(s, Q), R) = Kept(s, T)
    BY <1>1, <2>2, KeptBoth
  <2> QED
    BY <2>3, <2>4, <2>5
<1>3. \A s \in Ids(pg.subs) : PgActions(s) = MemoryActions(s)
  BY <1>1 DEF PgActions, MemoryActions
<1>4. \A a \in ToSet(pg.actions), event \in Events :
          (<<event, a.id>> \in pg.completions) = (<<event, a.id>> \in mem.completions)
  <2> TAKE a \in ToSet(pg.actions), event \in Events
  <2>1. a.id \in LiveIds
    BY <1>1 DEF LiveIds
  <2>2. <<event, a.id>>[2] = a.id
    OBVIOUS
  <2>3. <<event, a.id>> \in pg.completions <=> <<event, a.id>> \in mem.completions
    BY <1>1, <2>1, <2>2
  <2> QED
    BY <2>3
<1> QED
  BY <1>1, <1>2, <1>3, <1>4, PendingAlike DEF DispatchStoresAgree

\* The credentials found are the same, or among those that may be.
LEMMA AuthSeen == PairsInv => AuthStoresAgree
<1> SUFFICES ASSUME PairsInv PROVE AuthStoresAgree
  OBVIOUS
<1> DEFINE c == mem.credentials
<1>1. /\ pg.consumers = mem.consumers /\ pg.credentials = c /\ c \in Seq(CredentialRow)
  BY DEF PairsInv, ConsumersAlike
<1> HIDE DEF c
<1>2. ASSUME NEW hash \in Digests
      PROVE  /\ MemoryByHash(hash) \subseteq PgByHash(hash)
             /\ PgByHash(hash) # {} => MemoryByHash(hash) # {}
  <2> DEFINE R == {r \in ToSet(c) : r.hash = hash}
             k == Kept(c, R)
             f == First(k, 1)
  <2>1. PgByHash(hash) = R /\ MemoryByHash(hash) = ToSet(f)
    BY <1>1 DEF PgByHash, MemoryByHash, c
  <2>2. k \in Seq(CredentialRow) /\ ToSet(k) = R
    <3>1. ToSet(c) \cap R = R
      OBVIOUS
    <3> QED
      BY <1>1, <3>1, KeptRows, KeptSet
  <2> HIDE DEF R, k
  <2>3. /\ f \in Seq(CredentialRow) /\ Len(f) = (IF 1 < Len(k) THEN 1 ELSE Len(k))
        /\ \A i \in 1 .. Len(f) : f[i] = k[i]
    BY <2>2, FirstParts
  <2> HIDE DEF f
  <2>4. ToSet(f) = {f[i] : i \in 1 .. Len(f)} /\ ToSet(k) = {k[i] : i \in 1 .. Len(k)}
    BY <2>2, <2>3, SetParts
  <2>5. Len(k) \in Nat /\ Len(f) \in Nat /\ Len(f) <= Len(k)
    BY <2>2, <2>3
  <2>6. ToSet(f) \subseteq ToSet(k)
    <3>1. \A i \in 1 .. Len(f) : i \in 1 .. Len(k)
      BY <2>5
    <3> QED
      BY <2>3, <2>4, <3>1
  <2>7. ASSUME ToSet(k) # {} PROVE ToSet(f) # {}
    <3>1. Len(k) >= 1
      BY <2>4, <2>5, <2>7
    <3>2. Len(f) = 1
      <4>1. CASE 1 < Len(k)
        BY <2>3, <4>1
      <4>2. CASE ~(1 < Len(k))
        <5>1. Len(k) = 1
          BY <2>5, <3>1, <4>2
        <5> QED
          BY <2>3, <4>2, <5>1
      <4> QED
        BY <4>1, <4>2
    <3> QED
      BY <2>4, <3>2
  <2> QED
    BY <2>1, <2>2, <2>6, <2>7
<1>3. ASSUME NEW o, NEW types \in SUBSET {"bearer", "hmac"}
      PROVE  PgOfConsumer(o, types) = MemoryOfConsumer(o, types)
  <2> DEFINE Q == {r \in ToSet(c) : r.consumer = o}
             own == Kept(c, Q)
             R == {r \in ToSet(own) : r.type \in types}
  <2>1. MemoryOfConsumer(o, types) = ToSet(Kept(own, R))
    BY DEF MemoryOfConsumer, c
  <2>2. own \in Seq(CredentialRow) /\ ToSet(own) = ToSet(c) \cap Q
    BY <1>1, KeptRows, KeptSet
  <2>3. PgOfConsumer(o, types) = {r \in ToSet(c) : r.consumer = o /\ r.type \in types}
    BY <1>1 DEF PgOfConsumer
  <2> HIDE DEF own
  <2>4. ToSet(Kept(own, R)) = ToSet(own) \cap R
    BY <2>2, KeptSet
  <2> QED
    BY <2>1, <2>2, <2>3, <2>4
<1> QED
  BY <1>1, <1>2, <1>3 DEF AuthStoresAgree

\* The invariant is what callers see.
LEMMA PairsInvSeen == PairsInv => StoresAgree
<1>1. PairsInv => PrincipalStoresAgree
  BY DEF PairsInv, PrincipalsAlike, PrincipalStoresAgree
<1> QED
  BY <1>1, DispatchSeen, AuthSeen, DeliveriesSeen DEF StoresAgree

\* A caller cannot tell the stores in memory from those on PostgreSQL, whatever was done
\* to both: batches claimed and never confirmed, subscriptions that go with entries waiting,
\* retried mints and sweeps, and pages followed by their cursor.
THEOREM StoresAlwaysAgree == PairsSpec => []StoresAgree
<1>1. PairsSpec => []PairsInv
  BY PairsInvInit, PairsInvStep, PTL DEF PairsSpec
<1> QED
  BY <1>1, PairsInvSeen, PTL

-----------------------------------------------------------------------------
(* TraceQueries: answers to a query                                        *)

\* Rows that stand as D says.
InOrder(s, D) == \A i, j \in 1 .. Len(s) : i < j => <<s[i], s[j]>> \in D

\* A row may follow those it is related to.
LEMMA AppendInOrder ==
    ASSUME NEW S, NEW D, NEW s \in Seq(S), NEW e \in S
    PROVE  InOrder(Append(s, e), D) <=> InOrder(s, D) /\ \A r \in ToSet(s) : <<r, e>> \in D
<1> DEFINE t == Append(s, e)
<1>0. Len(s) \in Nat
  OBVIOUS
<1>1. t \in Seq(S) /\ Len(t) = Len(s) + 1 /\ t[Len(s) + 1] = e /\ \A i \in 1 .. Len(s) : t[i] = s[i]
  BY AppendProperties
<1>2. ToSet(s) = {s[i] : i \in 1 .. Len(s)}
  BY SetParts
<1> HIDE DEF t
<1>3. ASSUME InOrder(t, D) PROVE InOrder(s, D) /\ \A r \in ToSet(s) : <<r, e>> \in D
  <2>1. ASSUME NEW i \in 1 .. Len(s) PROVE <<s[i], e>> \in D
    <3>1. i \in 1 .. Len(t) /\ Len(s) + 1 \in 1 .. Len(t) /\ i < Len(s) + 1
      BY <1>0, <1>1
    <3> QED
      BY <1>1, <1>3, <3>1 DEF InOrder
  <2>2. ASSUME NEW i \in 1 .. Len(s), NEW j \in 1 .. Len(s), i < j PROVE <<s[i], s[j]>> \in D
    <3>1. i \in 1 .. Len(t) /\ j \in 1 .. Len(t)
      BY <1>0, <1>1
    <3> QED
      BY <1>1, <1>3, <2>2, <3>1 DEF InOrder
  <2> QED
    BY <1>2, <2>1, <2>2 DEF InOrder
<1>4. ASSUME InOrder(s, D), \A r \in ToSet(s) : <<r, e>> \in D PROVE InOrder(t, D)
  <2>1. ASSUME NEW i \in 1 .. Len(t), NEW j \in 1 .. Len(t), i < j PROVE <<t[i], t[j]>> \in D
    <3>1. i \in 1 .. Len(s) /\ t[i] = s[i] /\ s[i] \in ToSet(s)
      BY <1>0, <1>1, <1>2, <2>1
    <3>2. CASE j = Len(s) + 1
      BY <1>1, <1>4, <3>1, <3>2
    <3>3. CASE j # Len(s) + 1
      <4>1. j \in 1 .. Len(s)
        BY <1>0, <1>1, <3>3
      <4> QED
        BY <1>1, <1>4, <2>1, <3>1, <4>1 DEF InOrder
    <3> QED
      BY <3>2, <3>3
  <2> QED
    BY <2>1 DEF InOrder
<1> QED
  BY <1>3, <1>4 DEF t

\* Keeping some of them leaves them in their order.
LEMMA KeptInOrder ==
    ASSUME NEW S, NEW D, NEW R, NEW s \in Seq(S), InOrder(s, D)
    PROVE  InOrder(Kept(s, R), D)
<1> DEFINE Z == {t \in Seq(S) : InOrder(t, D) => InOrder(Kept(t, R), D)}
<1>1. <<>> \in Z
  BY KeptEmpty, EmptySeq DEF InOrder
<1>2. ASSUME NEW t \in Seq(S), NEW e \in S, t \in Z PROVE Append(t, e) \in Z
  <2>1. InOrder(Append(t, e), D) <=> InOrder(t, D) /\ \A r \in ToSet(t) : <<r, e>> \in D
    BY AppendInOrder
  <2>2. Kept(Append(t, e), R) = IF e \in R THEN Append(Kept(t, R), e) ELSE Kept(t, R)
    BY KeptAppend
  <2>3. Kept(t, R) \in Seq(S) /\ ToSet(Kept(t, R)) \subseteq ToSet(t)
    BY KeptRows, KeptSet
  <2>4. InOrder(Append(Kept(t, R), e), D)
          <=> InOrder(Kept(t, R), D) /\ \A r \in ToSet(Kept(t, R)) : <<r, e>> \in D
    BY <2>3, AppendInOrder
  <2>5. InOrder(Append(t, e), D) => InOrder(Kept(Append(t, e), R), D)
    BY <1>2, <2>1, <2>2, <2>3, <2>4
  <2>6. Append(t, e) \in Seq(S)
    BY AppendProperties
  <2> QED
    BY <2>5, <2>6
<1>3. s \in Z
  <2> HIDE DEF Z
  <2> QED
    BY <1>1, <1>2, SeqReaches
<1> QED
  BY <1>3

\* Rows turned round.
LEMMA ReverseParts ==
    ASSUME NEW S, NEW s \in Seq(S)
    PROVE  /\ Reverse(s) \in Seq(S) /\ Len(Reverse(s)) = Len(s) /\ ToSet(Reverse(s)) = ToSet(s)
           /\ \A i \in 1 .. Len(s) : Reverse(s)[i] = s[(Len(s) - i) + 1]
<1> DEFINE t == Reverse(s)
           n == Len(s)
<1>0. n \in Nat /\ \A i \in 1 .. n : s[i] \in S /\ (n - i) + 1 \in 1 .. n
  OBVIOUS
<1>1. t \in [1 .. n -> S] /\ \A i \in 1 .. n : t[i] = s[(n - i) + 1]
  BY <1>0 DEF Reverse
<1> HIDE DEF t
<1>2. t \in Seq(S) /\ Len(t) = n
  BY <1>0, <1>1, IsASeqFunction
<1>3. ToSet(t) = {t[i] : i \in 1 .. Len(t)} /\ ToSet(s) = {s[i] : i \in 1 .. n}
  BY <1>2, SetParts
<1>4. \A i \in 1 .. n : t[i] \in ToSet(s)
  BY <1>0, <1>1, <1>3
<1>5. \A i \in 1 .. n : s[i] \in ToSet(t)
  <2> TAKE i \in 1 .. n
  <2>1. (n - i) + 1 \in 1 .. n /\ (n - ((n - i) + 1)) + 1 = i
    BY <1>0
  <2>2. t[(n - i) + 1] = s[i]
    BY <1>1, <2>1
  <2> QED
    BY <1>2, <1>3, <2>1, <2>2
<1>6. ToSet(t) = ToSet(s)
  BY <1>2, <1>3, <1>4, <1>5
<1> QED
  BY <1>1, <1>2, <1>6 DEF t

-----------------------------------------------------------------------------
(* TraceQueries: the rows                                                  *)

TraceRow == [id : Nat, owner : Owner, n : Nat, tag : Tag, flag : BOOLEAN,
             status : {"running", "completed", "failed"}]
Orders == {ById, Newest, ByNumber, Greatest}
RankOf(by, r) == by.sign * r[by.column]
Ranked(s, by) == \A i, j \in 1 .. Len(s) : i < j => RankOf(by, s[i]) <= RankOf(by, s[j])
Distinct(s) == \A i, j \in 1 .. Len(s) : i < j => s[i] # s[j]

\* The rank of a row, by each order.
LEMMA RankParts ==
    ASSUME NEW r \in TraceRow
    PROVE  /\ RankOf(ById, r) = r.id /\ RankOf(Newest, r) = -r.id
           /\ RankOf(ByNumber, r) = r.n /\ RankOf(Greatest, r) = -r.n
           /\ r.id \in Nat /\ r.n \in Nat
           /\ \A by \in Orders : RankOf(by, r) \in Int
<1>1. r.id \in Nat /\ r.n \in Nat
  BY DEF TraceRow
<1>2. /\ RankOf(ById, r) = 1 * r.id /\ RankOf(Newest, r) = (-1) * r.id
      /\ RankOf(ByNumber, r) = 1 * r.n /\ RankOf(Greatest, r) = (-1) * r.n
  BY DEF RankOf, ById, Newest, ByNumber, Greatest
<1>3. /\ RankOf(ById, r) = r.id /\ RankOf(Newest, r) = -r.id
      /\ RankOf(ByNumber, r) = r.n /\ RankOf(Greatest, r) = -r.n
  BY <1>1, <1>2
<1> QED
  BY <1>1, <1>3 DEF Orders

\* Different rows are as many as they are.
LEMMA DistinctCount ==
    ASSUME NEW S, NEW s \in Seq(S), Distinct(s)
    PROVE  IsFiniteSet(ToSet(s)) /\ Cardinality(ToSet(s)) = Len(s)
<1>0. Len(s) \in Nat /\ \A i \in 1 .. Len(s) : s[i] \in S
  OBVIOUS
<1>1. ToSet(s) = {s[i] : i \in 1 .. Len(s)} /\ s \in [1 .. Len(s) -> S] /\ DOMAIN s = 1 .. Len(s)
  BY SetParts, LenProperties
<1>2. ASSUME NEW i \in 1 .. Len(s), NEW j \in 1 .. Len(s), s[i] = s[j] PROVE i = j
  <2>1. ~(i < j) /\ ~(j < i)
    BY <1>2 DEF Distinct
  <2> QED
    BY <2>1
<1>3. s \in Bijection(1 .. Len(s), ToSet(s))
  <2>1. s \in [1 .. Len(s) -> ToSet(s)]
    BY <1>1
  <2>2. s \in Injection(1 .. Len(s), ToSet(s))
    BY <1>1, <1>2, <2>1 DEF Injection, IsInjective
  <2>3. s \in Surjection(1 .. Len(s), ToSet(s))
    BY <1>1, <2>1 DEF Surjection
  <2> QED
    BY <2>2, <2>3 DEF Bijection
<1>4. ExistsBijection(1 .. Len(s), ToSet(s))
  BY <1>3 DEF ExistsBijection
<1>5. IsFiniteSet(1 .. Len(s)) /\ Cardinality(1 .. Len(s)) = Len(s)
  <2>0. PICK n \in Nat : n = Len(s)
    BY <1>0
  <2>1. 1 \in Int /\ n \in Int
    OBVIOUS
  <2>2. IsFiniteSet(1 .. n)
    BY <2>1, FS_Interval
  <2>3. Cardinality(1 .. n) = IF 1 > n THEN 0 ELSE n - 1 + 1
    BY <2>1, FS_Interval
  <2>4. Cardinality(1 .. n) = n
    BY <2>3
  <2> QED
    BY <2>0, <2>2, <2>4
<1> QED
  BY <1>4, <1>5, FS_Bijection

\* The first of rows in the order of a query are an answer to it.
LEMMA FirstAnswers ==
    ASSUME NEW s \in Seq(TraceRow), NEW by \in Orders, NEW limit \in Nat, Distinct(s), Ranked(s, by)
    PROVE  Answers(First(s, limit), ToSet(s), by, limit)
<1> DEFINE f == First(s, limit)
           S == ToSet(s)
<1>0. Len(s) \in Nat /\ \A i \in 1 .. Len(s) : s[i] \in TraceRow
  OBVIOUS
<1>1. /\ f \in Seq(TraceRow) /\ Len(f) = (IF limit < Len(s) THEN limit ELSE Len(s))
      /\ \A i \in 1 .. Len(f) : f[i] = s[i]
  BY FirstParts
<1> HIDE DEF f
<1>2. Len(f) \in Nat /\ Len(f) <= Len(s) /\ DOMAIN f = 1 .. Len(f)
  BY <1>0, <1>1
<1>3. \A i \in 1 .. Len(f) : i \in 1 .. Len(s)
  BY <1>0, <1>2
<1>4. S = {s[i] : i \in 1 .. Len(s)}
  BY SetParts
<1>5. Cardinality(S) = Len(s)
  BY DistinctCount
<1>6. IsInjective(f)
  <2>1. ASSUME NEW i \in 1 .. Len(f), NEW j \in 1 .. Len(f), f[i] = f[j] PROVE i = j
    <3>1. ~(i < j) /\ ~(j < i)
      BY <1>1, <1>3, <2>1 DEF Distinct
    <3> QED
      BY <3>1
  <2> QED
    BY <1>2, <2>1 DEF IsInjective
<1>7. Range(f) = {s[i] : i \in 1 .. Len(f)}
  BY <1>1, <1>2 DEF Range
<1>8. Range(f) \subseteq S
  BY <1>3, <1>4, <1>7
<1>9. Len(f) = IF Cardinality(S) < limit THEN Cardinality(S) ELSE limit
  BY <1>0, <1>1, <1>5
<1>10. \A i, j \in DOMAIN f : i < j => RankOf(by, f[i]) <= RankOf(by, f[j])
  BY <1>1, <1>2, <1>3 DEF Ranked
<1>11. \A i \in DOMAIN f : \A r \in S \ Range(f) : RankOf(by, f[i]) <= RankOf(by, r)
  <2> SUFFICES ASSUME NEW i \in 1 .. Len(f), NEW j \in 1 .. Len(s), s[j] \notin Range(f)
               PROVE  RankOf(by, f[i]) <= RankOf(by, s[j])
    BY <1>2, <1>4
  <2>1. j \notin 1 .. Len(f)
    BY <1>7
  <2>2. i < j
    BY <1>2, <2>1
  <2> QED
    BY <1>1, <1>3, <2>2 DEF Ranked
<1> QED
  BY <1>6, <1>8, <1>9, <1>10, <1>11 DEF Answers, RankOf, f

\* Without a limit: all of them.
LEMMA AllAnswer ==
    ASSUME NEW s \in Seq(TraceRow), NEW by \in Orders, Len(s) <= All, Distinct(s), Ranked(s, by)
    PROVE  Answers(s, ToSet(s), by, All)
<1>1. All \in Nat
  BY QueryAssumption DEF All
<1>2. First(s, All) = s
  BY <1>1, FirstAll
<1> QED
  BY <1>1, <1>2, FirstAnswers

\* Rows whose ids rise are in the order of their ids, and turned round the newest come first.
LEMMA RisingRanked ==
    ASSUME NEW s \in Seq(TraceRow), Rising(s)
    PROVE  Distinct(s) /\ Ranked(s, ById)
<1>1. \A i \in 1 .. Len(s) : s[i] \in TraceRow /\ s[i].id \in Nat /\ RankOf(ById, s[i]) = s[i].id
  <2>1. \A i \in 1 .. Len(s) : s[i] \in TraceRow
    OBVIOUS
  <2> QED
    BY <2>1, RankParts
<1>2. ASSUME NEW i \in 1 .. Len(s), NEW j \in 1 .. Len(s), i < j
      PROVE  s[i] # s[j] /\ RankOf(ById, s[i]) <= RankOf(ById, s[j])
  <2>1. s[i].id < s[j].id
    BY <1>2 DEF Rising
  <2> QED
    BY <1>1, <2>1
<1> QED
  BY <1>2 DEF Distinct, Ranked

Later(S) == {p \in S \X S : p[1].id > p[2].id}

\* Rows whose ids fall are in the order of the newest first.
LEMMA FallingRanked ==
    ASSUME NEW s \in Seq(TraceRow), InOrder(s, Later(TraceRow))
    PROVE  Distinct(s) /\ Ranked(s, Newest)
<1>1. \A i \in 1 .. Len(s) : s[i] \in TraceRow /\ s[i].id \in Nat /\ RankOf(Newest, s[i]) = -s[i].id
  <2>1. \A i \in 1 .. Len(s) : s[i] \in TraceRow
    OBVIOUS
  <2> QED
    BY <2>1, RankParts
<1>2. ASSUME NEW i \in 1 .. Len(s), NEW j \in 1 .. Len(s), i < j
      PROVE  s[i] # s[j] /\ RankOf(Newest, s[i]) <= RankOf(Newest, s[j])
  <2>1. s[i].id > s[j].id
    BY <1>2 DEF InOrder, Later
  <2> QED
    BY <1>1, <2>1
<1> QED
  BY <1>2 DEF Distinct, Ranked

\* Turning round rows whose ids rise gives rows whose ids fall.
LEMMA ReverseFalling ==
    ASSUME NEW s \in Seq(TraceRow), Rising(s)
    PROVE  InOrder(Reverse(s), Later(TraceRow))
<1> DEFINE n == Len(s)
           t == Reverse(s)
<1>1. Len(t) = n /\ n \in Nat /\ \A i \in 1 .. n : t[i] = s[(n - i) + 1]
  BY ReverseParts
<1>2. \A i \in 1 .. n : s[i] \in TraceRow
  OBVIOUS
<1> HIDE DEF t, n
<1>3. ASSUME NEW i \in 1 .. n, NEW j \in 1 .. n, i < j PROVE <<t[i], t[j]>> \in Later(TraceRow)
  <2>1. (n - i) + 1 \in 1 .. n /\ (n - j) + 1 \in 1 .. n /\ (n - j) + 1 < (n - i) + 1
    BY <1>1, <1>3
  <2>2. s[(n - j) + 1].id < s[(n - i) + 1].id
    BY <2>1 DEF Rising, n
  <2>3. t[i] \in TraceRow /\ t[j] \in TraceRow /\ t[j].id < t[i].id
    BY <1>1, <1>2, <2>1, <2>2
  <2>4. t[i].id \in Nat /\ t[j].id \in Nat
    BY <2>3 DEF TraceRow
  <2>5. t[i].id > t[j].id
    BY <2>3, <2>4
  <2> QED
    BY <2>3, <2>5 DEF Later
<1> QED
  BY <1>1, <1>3 DEF InOrder, t

-----------------------------------------------------------------------------
(* TraceQueries: the writes                                                *)

Writes == Insert \cup Finish

\* What is written.
LEMMA WritesParts ==
    ASSUME QueryInit
    PROVE  /\ case.writes \in Seq(Writes) /\ Len(case.writes) <= MaxWrites + 1
           /\ On("transcripts") => Turns(case.writes)
<1>0. MaxWrites \in Nat
  BY QueryAssumption
<1>1. ASSUME NEW ws, NEW S \in SUBSET Writes, NEW m \in Nat, m <= MaxWrites + 1, ws \in SeqOf(S, m)
      PROVE  ws \in Seq(Writes) /\ Len(ws) <= MaxWrites + 1
  <2>1. PICK k \in 0 .. m : ws \in [1 .. k -> S]
    BY <1>1 DEF SeqOf
  <2>2. ws \in [1 .. k -> Writes] /\ k \in Nat /\ k <= MaxWrites + 1
    BY <1>0, <1>1, <2>1
  <2>3. ws \in Seq(Writes) /\ Len(ws) = k
    BY <2>2, IsASeqFunction
  <2> QED
    BY <2>2, <2>3
<1>2. CASE \E ws \in SeqOf(Insert, MaxWrites) :
             \/ case = [on |-> "rows", writes |-> ws]
             \/ Turns(ws) /\ case = [on |-> "transcripts", writes |-> ws]
  <2>1. PICK ws \in SeqOf(Insert, MaxWrites) :
             \/ case = [on |-> "rows", writes |-> ws]
             \/ Turns(ws) /\ case = [on |-> "transcripts", writes |-> ws]
    BY <1>2
  <2>2. Insert \in SUBSET Writes /\ MaxWrites <= MaxWrites + 1
    BY <1>0 DEF Writes
  <2>3. ws \in Seq(Writes) /\ Len(ws) <= MaxWrites + 1
    BY <1>0, <1>1, <2>2
  <2>4. case.writes = ws /\ (case.on = "transcripts" => Turns(ws))
    BY <2>1
  <2> QED
    BY <2>3, <2>4 DEF On
<1>3. CASE \E ws \in SeqOf({w \in Insert : w.tag = "a" /\ w.flag} \cup Finish, MaxWrites + 1) :
             /\ Numbered(ws)
             /\ case = [on |-> "attempts", writes |-> ws]
  <2> DEFINE S == {w \in Insert : w.tag = "a" /\ w.flag} \cup Finish
  <2>1. PICK ws \in SeqOf(S, MaxWrites + 1) : case = [on |-> "attempts", writes |-> ws]
    BY <1>3
  <2>2. S \in SUBSET Writes /\ MaxWrites + 1 \in Nat
    BY <1>0 DEF Writes
  <2> HIDE DEF S
  <2>3. ws \in Seq(Writes) /\ Len(ws) <= MaxWrites + 1
    BY <1>0, <1>1, <2>2
  <2>4. case.writes = ws /\ case.on = "attempts"
    BY <2>1
  <2> QED
    BY <2>3, <2>4 DEF On
<1> QED
  BY <1>2, <1>3 DEF QueryInit

\* The list after the i-th write, from that before it.
Stepped(s, i) ==
    IF case.writes[i].op = "insert" THEN MemoryInsert(s, i, case.writes[i])
    ELSE MemoryFinish(s, case.writes[i])

\* A row that is written has the columns of its table.
LEMMA NewRowParts ==
    ASSUME NEW i \in Nat, NEW w \in Insert
    PROVE  /\ NewRow(i, w) \in TraceRow /\ NewRow(i, w).id = i
           /\ NewRow(i, w).owner = w.owner /\ NewRow(i, w).n = w.n
<1>1. w.owner \in Owner /\ w.n \in Nat /\ w.tag \in Tag /\ w.flag \in BOOLEAN
  BY QueryAssumption DEF Insert
<1> QED
  BY <1>1 DEF NewRow, TraceRow

\* A row that is finished differs in its status.
LEMMA FinishedParts ==
    ASSUME NEW s \in Seq(TraceRow), NEW w \in Finish, NEW f, f = MemoryFinish(s, w)
    PROVE  /\ f \in Seq(TraceRow) /\ Len(f) = Len(s)
           /\ \A k \in 1 .. Len(s) :
                 f[k] = IF s[k].id = w.id THEN [s[k] EXCEPT !.status = w.to] ELSE s[k]
           /\ \A k \in 1 .. Len(s) : f[k].id = s[k].id /\ f[k].owner = s[k].owner /\ f[k].n = s[k].n
<1> DEFINE n == Len(s)
           E(r) == [r EXCEPT !.status = w.to]
<1>0. n \in Nat /\ DOMAIN s = 1 .. n /\ \A k \in 1 .. n : s[k] \in TraceRow
  OBVIOUS
<1>1. w.to \in {"completed", "failed"}
  BY DEF Finish
<1>2. \A r \in TraceRow : E(r) \in TraceRow /\ E(r).id = r.id /\ E(r).owner = r.owner /\ E(r).n = r.n
  BY <1>1 DEF TraceRow
<1>3. f = [k \in 1 .. n |-> IF s[k].id = w.id THEN E(s[k]) ELSE s[k]]
  BY <1>0 DEF MemoryFinish
<1> HIDE DEF E, n
<1>4. f \in [1 .. n -> TraceRow] /\ \A k \in 1 .. n : f[k] = IF s[k].id = w.id THEN E(s[k]) ELSE s[k]
  BY <1>0, <1>2, <1>3
<1>5. f \in Seq(TraceRow) /\ Len(f) = n
  BY <1>0, <1>4, IsASeqFunction
<1>6. \A k \in 1 .. n : f[k].id = s[k].id /\ f[k].owner = s[k].owner /\ f[k].n = s[k].n
  BY <1>0, <1>2, <1>4
<1> QED
  BY <1>4, <1>5, <1>6 DEF n, E

\* In the table the same row is replaced.
LEMMA FinishedSet ==
    ASSUME NEW s \in Seq(TraceRow), NEW w \in Finish
    PROVE  ToSet(MemoryFinish(s, w)) = PgFinish(ToSet(s), w)
<1> DEFINE f == MemoryFinish(s, w)
           n == Len(s)
           E(r) == [r EXCEPT !.status = w.to]
<1>1. /\ f \in Seq(TraceRow) /\ Len(f) = n
      /\ \A k \in 1 .. n : f[k] = IF s[k].id = w.id THEN E(s[k]) ELSE s[k]
  BY FinishedParts
<1>2. PgFinish(ToSet(s), w) = {r \in ToSet(s) : r.id # w.id} \cup {E(r) : r \in {x \in ToSet(s) : x.id = w.id}}
  BY DEF PgFinish
<1> HIDE DEF f, E
<1>3. ToSet(f) = {f[k] : k \in 1 .. n} /\ ToSet(s) = {s[k] : k \in 1 .. n}
  BY <1>1, SetParts
<1>4. \A k \in 1 .. n : f[k] \in PgFinish(ToSet(s), w)
  BY <1>1, <1>2, <1>3
<1>5. ASSUME NEW x \in PgFinish(ToSet(s), w) PROVE x \in ToSet(f)
  <2>1. CASE x \in ToSet(s) /\ x.id # w.id
    BY <1>1, <1>3, <2>1
  <2>2. CASE \E r \in ToSet(s) : r.id = w.id /\ x = E(r)
    BY <1>1, <1>3, <2>2
  <2> QED
    BY <1>2, <1>5, <2>1, <2>2
<1> QED
  BY <1>3, <1>4, <1>5 DEF f

\* After a write there are rows, as there were before it.
LEMMA SteppedRows ==
    ASSUME NEW s \in Seq(TraceRow), NEW i \in Nat, case.writes[i] \in Writes
    PROVE  Stepped(s, i) \in Seq(TraceRow)
<1> DEFINE w == case.writes[i]
<1>1. CASE w.op = "insert"
  <2>1. w \in Insert
    BY <1>1 DEF Writes, Finish
  <2>2. NewRow(i, w) \in TraceRow
    BY <2>1, NewRowParts
  <2> QED
    BY <1>1, <2>2, AppendProperties DEF Stepped, MemoryInsert
<1>2. CASE w.op # "insert"
  <2>1. w \in Finish
    BY <1>2 DEF Writes, Insert
  <2> QED
    BY <1>2, <2>1, FinishedParts DEF Stepped
<1> QED
  BY <1>1, <1>2

\* The lists after each of the writes.
Lists(G) ==
    /\ G \in [0 .. Len(case.writes) -> Seq(TraceRow)] /\ G[0] = <<>>
    /\ \A i \in 1 .. Len(case.writes) : G[i] = Stepped(G[i - 1], i)

\* There are such lists, for any writes.
LEMMA ListsExist ==
    ASSUME case.writes \in Seq(Writes)
    PROVE  \E G : Lists(G)
<1> DEFINE n == Len(case.writes)
           Partly(g, k) == /\ g \in [0 .. k -> Seq(TraceRow)] /\ g[0] = <<>>
                           /\ \A i \in 1 .. k : g[i] = Stepped(g[i - 1], i)
           N == {k \in Nat : k <= n => \E g : Partly(g, k)}
<1>0. n \in Nat /\ \A i \in 1 .. n : case.writes[i] \in Writes
  OBVIOUS
<1> HIDE DEF n
<1>1. 0 \in N
  <2> DEFINE g == [i \in 0 .. 0 |-> <<>>]
  <2>1. g \in [0 .. 0 -> Seq(TraceRow)] /\ g[0] = <<>> /\ 1 .. 0 = {}
    BY EmptySeq
  <2> HIDE DEF g
  <2>2. Partly(g, 0)
    BY <2>1
  <2> HIDE DEF Partly
  <2> QED
    BY <2>2
<1>2. ASSUME NEW k \in Nat, k < n, k \in N PROVE k + 1 \in N
  <2>1. PICK g : Partly(g, k)
    <3> HIDE DEF Partly
    <3> QED
      BY <1>0, <1>2
  <2>2. /\ g \in [0 .. k -> Seq(TraceRow)] /\ g[0] = <<>>
        /\ \A i \in 1 .. k : g[i] = Stepped(g[i - 1], i)
    BY <2>1
  <2> DEFINE last == Stepped(g[k], k + 1)
             h == [i \in 0 .. k + 1 |-> IF i = k + 1 THEN last ELSE g[i]]
  <2>3. last \in Seq(TraceRow)
    <3>1. g[k] \in Seq(TraceRow) /\ k + 1 \in Nat /\ k + 1 \in 1 .. n
      BY <1>0, <1>2, <2>2
    <3>2. case.writes[k + 1] \in Writes
      BY <1>0, <3>1
    <3> QED
      BY <3>1, <3>2, SteppedRows
  <2> HIDE DEF last
  <2>4. h \in [0 .. k + 1 -> Seq(TraceRow)] /\ h[k + 1] = last /\ \A i \in 0 .. k : h[i] = g[i]
    BY <2>2, <2>3
  <2> HIDE DEF h
  <2>5. ASSUME NEW i \in 1 .. k + 1 PROVE h[i] = Stepped(h[i - 1], i)
    <3>1. CASE i = k + 1
      <4>1. i - 1 = k /\ k \in 0 .. k
        BY <3>1
      <4> QED
        BY <2>4, <3>1, <4>1 DEF last
    <3>2. CASE i # k + 1
      <4>1. i \in 1 .. k /\ i \in 0 .. k /\ i - 1 \in 0 .. k
        BY <3>2
      <4> QED
        BY <2>2, <2>4, <4>1
    <3> QED
      BY <3>1, <3>2
  <2>6. h[0] = <<>>
    BY <2>2, <2>4
  <2>7. Partly(h, k + 1)
    BY <2>4, <2>5, <2>6
  <2> HIDE DEF Partly
  <2> QED
    BY <2>7
<1>3. n \in N
  <2> HIDE DEF N
  <2> QED
    BY <1>0, <1>1, <1>2, Reaches
<1>4. PICK g : Partly(g, n)
  <2> HIDE DEF Partly
  <2> QED
    BY <1>0, <1>3
<1>5. Lists(g)
  BY <1>4 DEF Lists, n
<1> QED
  BY <1>5

\* The list in memory is the last of them.
LEMMA MemoryLists ==
    ASSUME NEW G, Lists(G), Len(case.writes) \in Nat
    PROVE  Memory = G[Len(case.writes)]
<1> DEFINE n == Len(case.writes)
           body(f) == [i \in 0 .. n |->
                         IF i = 0 THEN <<>>
                         ELSE LET w == case.writes[i]
                              IN  IF w.op = "insert" THEN MemoryInsert(f[i - 1], i, w)
                                  ELSE MemoryFinish(f[i - 1], w)]
           Walk == CHOOSE f : f = body(f)
<1>1. Memory = Walk[n]
  BY DEF Memory
<1>2. \A f : body(f) = [i \in 0 .. n |-> IF i = 0 THEN <<>> ELSE Stepped(f[i - 1], i)]
  BY DEF Stepped
<1>3. /\ G \in [0 .. n -> Seq(TraceRow)] /\ G[0] = <<>> /\ n \in Nat
      /\ \A i \in 1 .. n : G[i] = Stepped(G[i - 1], i)
  BY DEF Lists
<1> HIDE DEF n, body
<1>4. G = body(G)
  <2>1. ASSUME NEW i \in 0 .. n PROVE G[i] = IF i = 0 THEN <<>> ELSE Stepped(G[i - 1], i)
    <3>1. CASE i = 0
      BY <1>3, <3>1
    <3>2. CASE i # 0
      <4>1. i \in 1 .. n
        BY <1>3, <3>2
      <4> QED
        BY <1>3, <3>2, <4>1
    <3> QED
      BY <3>1, <3>2
  <2>2. G = [i \in 0 .. n |-> G[i]]
    BY <1>3
  <2>3. body(G) = [i \in 0 .. n |-> IF i = 0 THEN <<>> ELSE Stepped(G[i - 1], i)]
    BY <1>2
  <2> QED
    BY <2>1, <2>2, <2>3
<1>5. Walk = body(Walk)
  BY <1>4
<1> HIDE DEF Walk
<1>6. Walk[0] = <<>> /\ \A i \in 1 .. n : Walk[i] = Stepped(Walk[i - 1], i)
  <2>1. Walk = [i \in 0 .. n |-> IF i = 0 THEN <<>> ELSE Stepped(Walk[i - 1], i)]
    BY <1>2, <1>5
  <2>2. 0 \in 0 .. n /\ \A i \in 1 .. n : i \in 0 .. n /\ i # 0
    BY <1>3
  <2> QED
    BY <2>1, <2>2
<1> DEFINE Z == {k \in Nat : k <= n => Walk[k] = G[k]}
<1>7. 0 \in Z
  BY <1>3, <1>6
<1>8. ASSUME NEW k \in Nat, k < n, k \in Z PROVE k + 1 \in Z
  <2>1. k + 1 \in 1 .. n /\ k <= n /\ (k + 1) - 1 = k
    BY <1>3, <1>8
  <2>2. Walk[k] = G[k]
    BY <1>8, <2>1
  <2>3. Walk[k + 1] = Stepped(Walk[k], k + 1) /\ G[k + 1] = Stepped(G[k], k + 1)
    BY <1>3, <1>6, <2>1
  <2> QED
    BY <2>2, <2>3
<1>9. n \in Z
  <2> HIDE DEF Z
  <2> QED
    BY <1>3, <1>7, <1>8, Reaches
<1> QED
  BY <1>1, <1>3, <1>9 DEF n

\* What is in a list after k writes: rows in the order of their ids, as they were written.
Written(s, k) ==
    /\ Rising(s) /\ Len(s) <= k
    /\ \A r \in ToSet(s) : /\ r.id \in 1 .. k
                           /\ r.owner = case.writes[r.id].owner /\ r.n = case.writes[r.id].n

\* A write leaves the rows as they were written, and adds its own at the end.
LEMMA SteppedWritten ==
    ASSUME NEW s \in Seq(TraceRow), NEW k \in Nat, Written(s, k), case.writes[k + 1] \in Writes
    PROVE  Written(Stepped(s, k + 1), k + 1)
<1> DEFINE w == case.writes[k + 1]
<1>0. /\ Rising(s) /\ Len(s) <= k /\ Len(s) \in Nat
      /\ \A r \in ToSet(s) : /\ r.id \in 1 .. k
                             /\ r.owner = case.writes[r.id].owner /\ r.n = case.writes[r.id].n
  BY DEF Written
<1>i. \A r \in TraceRow : r.id \in Int
  BY DEF TraceRow
<1>1. CASE w.op = "insert"
  <2> DEFINE e == NewRow(k + 1, w)
  <2>1. w \in Insert
    BY <1>1 DEF Writes, Finish
  <2>2. e \in TraceRow /\ e.id = k + 1 /\ e.owner = w.owner /\ e.n = w.n
    BY <2>1, NewRowParts
  <2>3. Stepped(s, k + 1) = Append(s, e)
    BY <1>1 DEF Stepped, MemoryInsert
  <2> HIDE DEF e
  <2>4. ToSet(Append(s, e)) = ToSet(s) \cup {e} /\ Len(Append(s, e)) = Len(s) + 1
    BY <2>2, AppendSet, AppendProperties
  <2>5. \A r \in ToSet(s) : r.id < e.id
    BY <1>0, <2>2
  <2>6. Rising(Append(s, e))
    BY <1>0, <1>i, <2>2, <2>5, AppendRising
  <2>7. Len(Append(s, e)) <= k + 1
    BY <1>0, <2>4
  <2>8. \A r \in ToSet(s) : r.id \in 1 .. k + 1
    BY <1>0
  <2>9. k + 1 \in 1 .. k + 1
    OBVIOUS
  <2> QED
    BY <1>0, <2>2, <2>3, <2>4, <2>6, <2>7, <2>8, <2>9 DEF Written
<1>2. CASE w.op # "insert"
  <2> DEFINE f == MemoryFinish(s, w)
  <2>1. w \in Finish
    BY <1>2 DEF Writes, Insert
  <2>2. /\ f \in Seq(TraceRow) /\ Len(f) = Len(s)
        /\ \A j \in 1 .. Len(s) : f[j].id = s[j].id /\ f[j].owner = s[j].owner /\ f[j].n = s[j].n
    BY <2>1, FinishedParts
  <2>3. Stepped(s, k + 1) = f
    BY <1>2 DEF Stepped
  <2> HIDE DEF f
  <2>4. ToSet(f) = {f[j] : j \in 1 .. Len(s)} /\ ToSet(s) = {s[j] : j \in 1 .. Len(s)}
    <3>1. ToSet(f) = {f[j] : j \in 1 .. Len(f)}
      BY <2>2, SetParts
    <3> QED
      BY <2>2, <3>1, SetParts
  <2>5. Rising(f)
    BY <1>0, <2>2 DEF Rising
  <2>6. ASSUME NEW j \in 1 .. Len(s)
        PROVE  /\ f[j].id \in 1 .. k + 1
               /\ f[j].owner = case.writes[f[j].id].owner /\ f[j].n = case.writes[f[j].id].n
    <3>1. s[j] \in ToSet(s)
      BY <2>4
    <3>2. /\ s[j].id \in 1 .. k
          /\ s[j].owner = case.writes[s[j].id].owner /\ s[j].n = case.writes[s[j].id].n
      BY <1>0, <3>1
    <3>3. s[j].id \in 1 .. k + 1
      BY <3>2
    <3> QED
      BY <2>2, <3>2, <3>3
  <2>7. Len(f) <= k + 1
    BY <1>0, <2>2
  <2> QED
    BY <2>3, <2>4, <2>5, <2>6, <2>7 DEF Written
<1> QED
  BY <1>1, <1>2

\* What the table is after a write follows from the list.
LEMMA SteppedSet ==
    ASSUME NEW s \in Seq(TraceRow), NEW i \in Nat, case.writes[i] \in Writes
    PROVE  ToSet(Stepped(s, i)) = IF case.writes[i].op = "insert"
                                  THEN PgInsert(ToSet(s), i, case.writes[i])
                                  ELSE PgFinish(ToSet(s), case.writes[i])
<1> DEFINE w == case.writes[i]
<1>1. CASE w.op = "insert"
  <2>1. w \in Insert
    BY <1>1 DEF Writes, Finish
  <2>2. NewRow(i, w) \in TraceRow
    BY <2>1, NewRowParts
  <2>3. ToSet(Append(s, NewRow(i, w))) = ToSet(s) \cup {NewRow(i, w)}
    BY <2>2, AppendSet
  <2> QED
    BY <1>1, <2>3 DEF Stepped, MemoryInsert, PgInsert
<1>2. CASE w.op # "insert"
  <2>1. w \in Finish
    BY <1>2 DEF Writes, Insert
  <2> QED
    BY <1>2, <2>1, FinishedSet DEF Stepped
<1> QED
  BY <1>1, <1>2

\* The table is the set of the rows of the last list.
LEMMA PgLists ==
    ASSUME NEW G, Lists(G), case.writes \in Seq(Writes)
    PROVE  Pg = ToSet(G[Len(case.writes)])
<1> DEFINE n == Len(case.writes)
           Next1(T, i) == IF case.writes[i].op = "insert" THEN PgInsert(T, i, case.writes[i])
                          ELSE PgFinish(T, case.writes[i])
           body(f) == [i \in 0 .. n |->
                         IF i = 0 THEN {}
                         ELSE LET w == case.writes[i]
                              IN  IF w.op = "insert" THEN PgInsert(f[i - 1], i, w)
                                  ELSE PgFinish(f[i - 1], w)]
           Walk == CHOOSE f : f = body(f)
           H == [i \in 0 .. n |-> ToSet(G[i])]
<1>1. Pg = Walk[n]
  BY DEF Pg
<1>2. \A f : body(f) = [i \in 0 .. n |-> IF i = 0 THEN {} ELSE Next1(f[i - 1], i)]
  OBVIOUS
<1>3. /\ G \in [0 .. n -> Seq(TraceRow)] /\ G[0] = <<>> /\ n \in Nat
      /\ \A i \in 1 .. n : G[i] = Stepped(G[i - 1], i)
      /\ \A i \in 1 .. n : case.writes[i] \in Writes
  BY DEF Lists
<1>a. \A s \in Seq(TraceRow), i \in Nat : case.writes[i] \in Writes => ToSet(Stepped(s, i)) = Next1(ToSet(s), i)
  BY SteppedSet
<1> HIDE DEF n, body, Next1
<1>4. H[0] = {}
  BY <1>3, EmptySet
<1>5. ASSUME NEW i \in 1 .. n PROVE H[i] = Next1(H[i - 1], i)
  <2>1. i \in Nat /\ i \in 0 .. n /\ i - 1 \in 0 .. n
    BY <1>3
  <2>2. G[i - 1] \in Seq(TraceRow) /\ G[i] = Stepped(G[i - 1], i) /\ case.writes[i] \in Writes
    BY <1>3, <2>1
  <2>3. ToSet(G[i]) = Next1(ToSet(G[i - 1]), i)
    BY <1>a, <2>1, <2>2
  <2> QED
    BY <2>1, <2>3
<1>6. H = [i \in 0 .. n |-> H[i]]
  OBVIOUS
<1>e. H[n] = ToSet(G[n])
  BY <1>3
<1> HIDE DEF H
<1>7. H = body(H)
  <2>1. ASSUME NEW i \in 0 .. n PROVE H[i] = IF i = 0 THEN {} ELSE Next1(H[i - 1], i)
    <3>1. CASE i = 0
      BY <1>4, <3>1
    <3>2. CASE i # 0
      <4>1. i \in 1 .. n
        BY <1>3, <3>2
      <4> QED
        BY <1>5, <3>2, <4>1
    <3> QED
      BY <3>1, <3>2
  <2>2. body(H) = [i \in 0 .. n |-> IF i = 0 THEN {} ELSE Next1(H[i - 1], i)]
    BY <1>2
  <2> QED
    BY <1>6, <2>1, <2>2
<1>8. Walk = body(Walk)
  BY <1>7
<1> HIDE DEF Walk
<1>9. Walk[0] = {} /\ \A i \in 1 .. n : Walk[i] = Next1(Walk[i - 1], i)
  <2>1. Walk = [i \in 0 .. n |-> IF i = 0 THEN {} ELSE Next1(Walk[i - 1], i)]
    BY <1>2, <1>8
  <2>2. 0 \in 0 .. n /\ \A i \in 1 .. n : i \in 0 .. n /\ i # 0
    BY <1>3
  <2> QED
    BY <2>1, <2>2
<1> DEFINE Z == {k \in Nat : k <= n => Walk[k] = H[k]}
<1>10. 0 \in Z
  BY <1>4, <1>9
<1>11. ASSUME NEW k \in Nat, k < n, k \in Z PROVE k + 1 \in Z
  <2>1. k + 1 \in 1 .. n /\ k <= n /\ (k + 1) - 1 = k
    BY <1>3, <1>11
  <2>2. Walk[k] = H[k]
    BY <1>11, <2>1
  <2>3. Walk[k + 1] = Next1(Walk[k], k + 1) /\ H[k + 1] = Next1(H[k], k + 1)
    BY <1>5, <1>9, <2>1
  <2> QED
    BY <2>2, <2>3
<1>12. n \in Z
  <2> HIDE DEF Z
  <2> QED
    BY <1>3, <1>10, <1>11, Reaches
<1> QED
  BY <1>1, <1>3, <1>12, <1>e DEF n

\* Both backends hold the same rows, in memory in the order of their ids.
LEMMA BothWritten ==
    ASSUME QueryInit
    PROVE  /\ Memory \in Seq(TraceRow) /\ Pg = ToSet(Memory)
           /\ Written(Memory, Len(case.writes)) /\ Len(Memory) < All
<1> DEFINE n == Len(case.writes)
<1>1. case.writes \in Seq(Writes) /\ n <= MaxWrites + 1 /\ n \in Nat
  <2>1. case.writes \in Seq(Writes) /\ n <= MaxWrites + 1
    BY WritesParts
  <2> QED
    BY <2>1
<1>2. PICK G : Lists(G)
  BY <1>1, ListsExist
<1>3. Memory = G[n]
  BY <1>1, <1>2, MemoryLists
<1>4. Pg = ToSet(G[n])
  BY <1>1, <1>2, PgLists
<1>5. /\ G \in [0 .. n -> Seq(TraceRow)] /\ G[0] = <<>>
      /\ \A i \in 1 .. n : G[i] = Stepped(G[i - 1], i)
      /\ \A i \in 1 .. n : case.writes[i] \in Writes
  BY <1>1, <1>2 DEF Lists
<1> HIDE DEF n
<1> DEFINE Z == {k \in Nat : k <= n => Written(G[k], k)}
<1>6. 0 \in Z
  <2>1. Written(<<>>, 0)
    BY EmptySet, EmptyRising DEF Written
  <2> QED
    BY <1>5, <2>1
<1>7. ASSUME NEW k \in Nat, k < n, k \in Z PROVE k + 1 \in Z
  <2>1. k \in 0 .. n /\ k + 1 \in 1 .. n /\ (k + 1) - 1 = k /\ k <= n
    BY <1>1, <1>7
  <2>2. Written(G[k], k) /\ G[k] \in Seq(TraceRow) /\ case.writes[k + 1] \in Writes
    BY <1>5, <1>7, <2>1
  <2>3. G[k + 1] = Stepped(G[k], k + 1)
    BY <1>5, <2>1
  <2>4. Written(Stepped(G[k], k + 1), k + 1)
    BY <2>2, SteppedWritten
  <2> QED
    BY <2>3, <2>4
<1>8. n \in Z
  <2> HIDE DEF Z
  <2> QED
    BY <1>1, <1>6, <1>7, Reaches
<1>9. Written(G[n], n) /\ G[n] \in Seq(TraceRow)
  BY <1>1, <1>5, <1>8
<1>10. Len(G[n]) <= n /\ Len(G[n]) \in Nat
  BY <1>9 DEF Written
<1>11. Len(G[n]) < All
  BY <1>1, <1>10, QueryAssumption DEF All
<1> QED
  BY <1>3, <1>4, <1>9, <1>11 DEF n

\* A list that holds the rows of a set in the order of their ids.
Held(s, T) == s \in Seq(TraceRow) /\ Rising(s) /\ ToSet(s) = T /\ Len(s) <= All

\* Ids are numbers.
LEMMA RowIds == \A r \in TraceRow : r.id \in Int
  BY DEF TraceRow

\* What is kept of it holds the rows that are kept.
LEMMA KeptHeld ==
    ASSUME NEW s, NEW T, NEW R, Held(s, T)
    PROVE  Held(Kept(s, R), T \cap R)
<1>1. s \in Seq(TraceRow) /\ Rising(s) /\ ToSet(s) = T /\ Len(s) <= All
  BY DEF Held
<1>2. Kept(s, R) \in Seq(TraceRow) /\ ToSet(Kept(s, R)) = T \cap R
  BY <1>1, KeptRows, KeptSet
<1>3. Rising(Kept(s, R)) /\ Len(Kept(s, R)) <= Len(s)
  BY <1>1, RowIds, KeptRising, KeptShorter
<1>4. All \in Nat /\ Len(s) \in Nat /\ Len(Kept(s, R)) \in Nat
  BY <1>1, <1>2, QueryAssumption DEF All
<1>5. Len(Kept(s, R)) <= All
  BY <1>1, <1>3, <1>4
<1> QED
  BY <1>2, <1>3, <1>5 DEF Held

\* Read as it is and turned round, all of it or the first rows, it answers the queries by id.
LEMMA HeldAnswers ==
    ASSUME NEW s, NEW T, Held(s, T)
    PROVE  /\ Answers(s, T, ById, All) /\ Answers(Reverse(s), T, Newest, All)
           /\ \A limit \in Nat : /\ Answers(First(s, limit), T, ById, limit)
                                 /\ Answers(First(Reverse(s), limit), T, Newest, limit)
<1>1. s \in Seq(TraceRow) /\ Rising(s) /\ ToSet(s) = T /\ Len(s) <= All
  BY DEF Held
<1>2. Distinct(s) /\ Ranked(s, ById)
  BY <1>1, RisingRanked
<1>3. /\ Reverse(s) \in Seq(TraceRow) /\ Len(Reverse(s)) = Len(s) /\ ToSet(Reverse(s)) = T
  BY <1>1, ReverseParts
<1>4. Distinct(Reverse(s)) /\ Ranked(Reverse(s), Newest)
  BY <1>1, <1>3, ReverseFalling, FallingRanked
<1>5. ById \in Orders /\ Newest \in Orders
  BY DEF Orders
<1>6. Len(Reverse(s)) <= All
  BY <1>1, <1>3
<1>7. Answers(s, ToSet(s), ById, All)
  BY <1>1, <1>2, <1>5, AllAnswer
<1>8. Answers(Reverse(s), ToSet(Reverse(s)), Newest, All)
  BY <1>3, <1>4, <1>5, <1>6, AllAnswer
<1>9. ASSUME NEW limit \in Nat
      PROVE  /\ Answers(First(s, limit), ToSet(s), ById, limit)
             /\ Answers(First(Reverse(s), limit), ToSet(Reverse(s)), Newest, limit)
  BY <1>1, <1>2, <1>3, <1>4, <1>5, FirstAnswers
<1> QED
  BY <1>1, <1>3, <1>7, <1>8, <1>9

\* Turned round first and then kept, too.
LEMMA KeptNewest ==
    ASSUME NEW s, NEW T, NEW R, Held(s, T)
    PROVE  Answers(Kept(Reverse(s), R), T \cap R, Newest, All)
<1> DEFINE t == Reverse(s)
           u == Kept(t, R)
<1>1. s \in Seq(TraceRow) /\ Rising(s) /\ ToSet(s) = T /\ Len(s) <= All
  BY DEF Held
<1>2. t \in Seq(TraceRow) /\ Len(t) = Len(s) /\ ToSet(t) = T
  BY <1>1, ReverseParts
<1>3. InOrder(t, Later(TraceRow))
  BY <1>1, ReverseFalling
<1>4. u \in Seq(TraceRow) /\ ToSet(u) = T \cap R /\ InOrder(u, Later(TraceRow))
  BY <1>2, <1>3, KeptRows, KeptSet, KeptInOrder
<1>5. Distinct(t) /\ Distinct(u) /\ Ranked(u, Newest)
  BY <1>2, <1>3, <1>4, FallingRanked
<1>6. /\ IsFiniteSet(T) /\ Cardinality(T) = Len(t)
      /\ Cardinality(T \cap R) = Len(u)
  BY <1>2, <1>4, <1>5, DistinctCount
<1>7. Cardinality(T \cap R) <= Cardinality(T)
  BY <1>6, FS_Subset
<1>8. All \in Nat /\ Len(t) \in Nat /\ Len(u) \in Nat
  BY <1>2, <1>4, QueryAssumption DEF All
<1>9. Len(u) <= All
  BY <1>1, <1>2, <1>6, <1>7, <1>8
<1>10. Newest \in Orders
  BY DEF Orders
<1> QED
  BY <1>4, <1>5, <1>9, <1>10, AllAnswer DEF u, t

-----------------------------------------------------------------------------
(* TraceQueries: the readers                                               *)

\* The list in memory holds the table, and an owner's rows those of the owner.
LEMMA MemoryHeld ==
    ASSUME QueryInit
    PROVE  Held(Memory, Pg) /\ \A o \in Owner : Held(Owned(o), PgOwned(o))
<1>1. /\ Memory \in Seq(TraceRow) /\ Pg = ToSet(Memory)
      /\ Written(Memory, Len(case.writes)) /\ Len(Memory) < All
  BY BothWritten
<1>2. All \in Nat /\ Len(Memory) \in Nat
  BY <1>1, QueryAssumption DEF All
<1>3. Held(Memory, Pg)
  BY <1>1, <1>2 DEF Held, Written
<1>4. ASSUME NEW o \in Owner
      PROVE  Held(Owned(o), PgOwned(o))
  <2>1. Owned(o) = Kept(Memory, PgOwned(o)) /\ Pg \cap PgOwned(o) = PgOwned(o)
    BY <1>1 DEF Owned, PgOwned
  <2> QED
    BY <1>3, <2>1, KeptHeld
<1> QED
  BY <1>3, <1>4

\* Rows, decisions, constraints and lessons.
LEMMA RowsAnswered ==
    ASSUME QueryInit
    PROVE  /\ Answers(MemoryRuns, Pg, Newest, All)
           /\ \A o \in Owner :
                 /\ Answers(MemoryInOrder(o), PgOwned(o), ById, All)
                 /\ \A limit \in Nat : Answers(MemoryDecisions(o, limit), PgOwned(o), Newest, limit)
                 /\ \A only \in BOOLEAN :
                       Answers(MemoryFlagged(o, only), PgFlagged(o, only), Newest, All)
           /\ \A owners \in SUBSET Owner, tags \in SUBSET Tag, p \in BOOLEAN :
                 Answers(MemoryLessons(owners, p, tags), PgLessons(owners, p, tags), Newest, All)
<1>1. Held(Memory, Pg) /\ \A o \in Owner : Held(Owned(o), PgOwned(o))
  BY MemoryHeld
<1>2. ToSet(Memory) = Pg /\ \A o \in Owner : ToSet(Owned(o)) = PgOwned(o)
  BY <1>1 DEF Held
<1>3. Answers(MemoryRuns, Pg, Newest, All)
  BY <1>1, HeldAnswers DEF MemoryRuns
<1>4. ASSUME NEW o \in Owner
      PROVE  /\ Answers(MemoryInOrder(o), PgOwned(o), ById, All)
             /\ \A limit \in Nat : Answers(MemoryDecisions(o, limit), PgOwned(o), Newest, limit)
  BY <1>1, HeldAnswers DEF MemoryInOrder, MemoryDecisions
<1>5. ASSUME NEW o \in Owner, NEW only \in BOOLEAN
      PROVE  Answers(MemoryFlagged(o, only), PgFlagged(o, only), Newest, All)
  <2>1. /\ MemoryFlagged(o, only) = Kept(Reverse(Owned(o)), PgFlagged(o, only))
        /\ PgOwned(o) \cap PgFlagged(o, only) = PgFlagged(o, only)
    BY <1>2 DEF MemoryFlagged, PgFlagged
  <2>2. Answers(Kept(Reverse(Owned(o)), PgFlagged(o, only)), PgOwned(o) \cap PgFlagged(o, only),
                Newest, All)
    BY <1>1, KeptNewest
  <2> QED
    BY <2>1, <2>2
<1>6. ASSUME NEW owners \in SUBSET Owner, NEW tags \in SUBSET Tag, NEW p \in BOOLEAN
      PROVE  Answers(MemoryLessons(owners, p, tags), PgLessons(owners, p, tags), Newest, All)
  <2>1. /\ MemoryLessons(owners, p, tags) = Kept(Reverse(Memory), PgLessons(owners, p, tags))
        /\ Pg \cap PgLessons(owners, p, tags) = PgLessons(owners, p, tags)
    BY <1>2 DEF MemoryLessons, PgLessons
  <2>2. Answers(Kept(Reverse(Memory), PgLessons(owners, p, tags)),
                Pg \cap PgLessons(owners, p, tags), Newest, All)
    BY <1>1, KeptNewest
  <2> QED
    BY <2>1, <2>2
<1> QED
  BY <1>3, <1>4, <1>5, <1>6

\* Events, read and replayed.
LEMMA EventsAnswered ==
    ASSUME QueryInit, NEW tags \in SUBSET Tag, NEW since \in Nat, NEW limit \in Nat
    PROVE  /\ \A o \in Owner :
                 Answers(MemoryEvents(o, tags, since, limit), PgEvents(o, tags, since), ById, limit)
           /\ \A owners \in SUBSET Owner :
                 Answers(MemoryReplay(owners, tags, since, limit), PgReplay(owners, tags, since),
                         ById, limit)
<1>1. Held(Memory, Pg) /\ \A o \in Owner : Held(Owned(o), PgOwned(o))
  BY MemoryHeld
<1>2. ToSet(Memory) = Pg /\ \A o \in Owner : ToSet(Owned(o)) = PgOwned(o)
  BY <1>1 DEF Held
<1>3. Pg \subseteq TraceRow
  BY <1>1, SetParts DEF Held
<1>4. /\ \A r \in Pg : r.id \in Nat
      /\ \A r \in Pg : ~(r.id < since) <=> r.id >= since
      /\ \A r \in Pg : ~(r.id <= since) <=> r.id > since
  <2>1. \A r \in Pg : r.id \in Nat
    BY <1>3 DEF TraceRow
  <2> QED
    BY <2>1
<1>5. ASSUME NEW o \in Owner
      PROVE  Answers(MemoryEvents(o, tags, since, limit), PgEvents(o, tags, since), ById, limit)
  <2> DEFINE R == PgEvents(o, tags, since)
  <2>1. /\ {r \in PgOwned(o) : r.tag \in tags /\ ~(r.id < since)} = R
        /\ PgOwned(o) \cap R = R
    BY <1>4 DEF PgEvents, PgOwned
  <2>2. MemoryEvents(o, tags, since, limit) = First(Kept(Owned(o), R), limit)
    BY <1>2, <2>1 DEF MemoryEvents
  <2>3. Held(Kept(Owned(o), R), R)
    BY <1>1, <2>1, KeptHeld
  <2> QED
    BY <2>2, <2>3, HeldAnswers
<1>6. ASSUME NEW owners \in SUBSET Owner
      PROVE  Answers(MemoryReplay(owners, tags, since, limit), PgReplay(owners, tags, since),
                     ById, limit)
  <2> DEFINE R == PgReplay(owners, tags, since)
  <2>1. /\ {r \in Pg : r.owner \in owners /\ r.tag \in tags /\ ~(r.id <= since)} = R
        /\ Pg \cap R = R
    BY <1>4 DEF PgReplay
  <2>2. MemoryReplay(owners, tags, since, limit) = First(Kept(Memory, R), limit)
    BY <1>2, <2>1 DEF MemoryReplay
  <2>3. Held(Kept(Memory, R), R)
    BY <1>1, <2>1, KeptHeld
  <2> QED
    BY <2>2, <2>3, HeldAnswers
<1> QED
  BY <1>5, <1>6

\* Transcripts: the turns of a session do not decrease, so that they are in the order of the list.
LEMMA TranscriptsAnswered ==
    ASSUME QueryInit, On("transcripts"), NEW o \in Owner
    PROVE  Answers(MemoryTranscript(o), PgOwned(o), ByNumber, All)
<1> DEFINE s == Owned(o)
           n == Len(case.writes)
<1>1. case.writes \in Seq(Writes) /\ Turns(case.writes)
  BY WritesParts
<1>2. n \in Nat /\ DOMAIN case.writes = 1 .. n
  BY <1>1
<1>3. Held(s, PgOwned(o))
  BY MemoryHeld
<1>4. s \in Seq(TraceRow) /\ Rising(s) /\ ToSet(s) = PgOwned(o) /\ Len(s) <= All
  BY <1>3 DEF Held
<1>5. \A r \in PgOwned(o) : /\ r.owner = o /\ r.id \in 1 .. n
                            /\ r.owner = case.writes[r.id].owner /\ r.n = case.writes[r.id].n
  BY BothWritten DEF Written, PgOwned
<1>6. Distinct(s)
  BY <1>4, RisingRanked
<1>7. ASSUME NEW i \in 1 .. Len(s), NEW j \in 1 .. Len(s), i < j
      PROVE  RankOf(ByNumber, s[i]) <= RankOf(ByNumber, s[j])
  <2>1. s[i] \in PgOwned(o) /\ s[j] \in PgOwned(o) /\ s[i] \in TraceRow /\ s[j] \in TraceRow
    BY <1>4, SetParts
  <2>2. s[i].id < s[j].id
    BY <1>4, <1>7 DEF Rising
  <2>3. /\ s[i].id \in DOMAIN case.writes /\ s[j].id \in DOMAIN case.writes
        /\ case.writes[s[i].id].owner = case.writes[s[j].id].owner
    BY <1>2, <1>5, <2>1
  <2>4. case.writes[s[i].id].n <= case.writes[s[j].id].n
    BY <1>1, <2>2, <2>3 DEF Turns
  <2>5. s[i].n <= s[j].n
    BY <1>5, <2>1, <2>4
  <2> QED
    BY <2>1, <2>5, RankParts
<1>8. Ranked(s, ByNumber)
  BY <1>7 DEF Ranked
<1>9. ByNumber \in Orders
  BY DEF Orders
<1> QED
  BY <1>4, <1>6, <1>8, <1>9, AllAnswer DEF MemoryTranscript, s

-----------------------------------------------------------------------------
(* TraceQueries: rows sorted by their numbers                              *)

\* The least of rows, by number and then by id.
LeastOf(S) == CHOOSE r \in S : \A q \in S : r.n < q.n \/ (r.n = q.n /\ r.id <= q.id)

\* Rows, if there are any, have a least one.
LEMMA LeastOfParts ==
    ASSUME NEW S \in SUBSET TraceRow, S # {}
    PROVE  LeastOf(S) \in S /\ \A q \in S : LeastOf(S).n <= q.n
<1>0. \A r \in S : r.n \in Nat /\ r.id \in Nat
  BY DEF TraceRow
<1> DEFINE N == {r.n : r \in S}
<1>1. PICK m \in N : \A y \in N : m <= y
  <2>1. N \in SUBSET Nat /\ N # {}
    BY <1>0
  <2> HIDE DEF N
  <2> QED
    BY <2>1, LeastExists
<1> DEFINE I == {r.id : r \in {x \in S : x.n = m}}
<1>2. PICK d \in I : \A y \in I : d <= y
  <2>1. I \in SUBSET Nat /\ I # {}
    BY <1>0, <1>1
  <2> HIDE DEF I
  <2> QED
    BY <2>1, LeastExists
<1>3. PICK r \in S : r.n = m /\ r.id = d
  BY <1>2
<1>4. ASSUME NEW q \in S
      PROVE  r.n < q.n \/ (r.n = q.n /\ r.id <= q.id)
  <2>1. r.n <= q.n
    BY <1>1, <1>3
  <2>2. ASSUME r.n = q.n PROVE r.id <= q.id
    BY <1>2, <1>3, <2>2
  <2>3. r.n \in Nat /\ q.n \in Nat
    BY <1>0
  <2> QED
    BY <2>1, <2>2, <2>3
<1>5. /\ LeastOf(S) \in S
      /\ \A q \in S : LeastOf(S).n < q.n \/ (LeastOf(S).n = q.n /\ LeastOf(S).id <= q.id)
  BY <1>4 DEF LeastOf
<1>6. ASSUME NEW q \in S PROVE LeastOf(S).n <= q.n
  <2>1. LeastOf(S).n < q.n \/ LeastOf(S).n = q.n
    BY <1>5
  <2>2. LeastOf(S).n \in Nat /\ q.n \in Nat
    BY <1>0, <1>5
  <2> QED
    BY <2>1, <2>2
<1> QED
  BY <1>5, <1>6

\* What is left of them after each choice.
Leaving(G, T, n) == /\ G[0] = T
                    /\ \A i \in 1 .. n : G[i] = G[i - 1] \ {LeastOf(G[i - 1])}

\* There are such sets, for any number of choices.
LEMMA LeavingExists ==
    ASSUME NEW T, NEW n \in Nat
    PROVE  \E G : G = [i \in 0 .. n |-> G[i]] /\ Leaving(G, T, n)
<1> DEFINE Partly(g, k) == g = [i \in 0 .. k |-> g[i]] /\ Leaving(g, T, k)
           N == {k \in Nat : \E g : Partly(g, k)}
<1>1. 0 \in N
  <2> DEFINE g == [i \in 0 .. 0 |-> T]
  <2>1. g = [i \in 0 .. 0 |-> g[i]] /\ g[0] = T /\ 1 .. 0 = {}
    OBVIOUS
  <2> HIDE DEF g
  <2>2. Partly(g, 0)
    BY <2>1 DEF Leaving
  <2> HIDE DEF Partly
  <2> QED
    BY <2>2
<1>2. ASSUME NEW k \in Nat, k < n, k \in N PROVE k + 1 \in N
  <2>1. PICK g : Partly(g, k)
    <3> HIDE DEF Partly
    <3> QED
      BY <1>2
  <2>2. g[0] = T /\ \A i \in 1 .. k : g[i] = g[i - 1] \ {LeastOf(g[i - 1])}
    BY <2>1 DEF Leaving
  <2> DEFINE last == g[k] \ {LeastOf(g[k])}
             h == [i \in 0 .. k + 1 |-> IF i = k + 1 THEN last ELSE g[i]]
  <2> HIDE DEF last
  <2>3. h = [i \in 0 .. k + 1 |-> h[i]] /\ h[k + 1] = last /\ \A i \in 0 .. k : h[i] = g[i]
    OBVIOUS
  <2> HIDE DEF h
  <2>4. ASSUME NEW i \in 1 .. k + 1 PROVE h[i] = h[i - 1] \ {LeastOf(h[i - 1])}
    <3>1. CASE i = k + 1
      <4>1. i - 1 = k /\ k \in 0 .. k
        BY <3>1
      <4> QED
        BY <2>3, <3>1, <4>1 DEF last
    <3>2. CASE i # k + 1
      <4>1. i \in 1 .. k /\ i \in 0 .. k /\ i - 1 \in 0 .. k
        BY <3>2
      <4> QED
        BY <2>2, <2>3, <4>1
    <3> QED
      BY <3>1, <3>2
  <2>5. h[0] = T
    <3>1. 0 \in 0 .. k
      OBVIOUS
    <3> QED
      BY <2>2, <2>3, <3>1
  <2>6. Partly(h, k + 1)
    BY <2>3, <2>4, <2>5 DEF Leaving
  <2> HIDE DEF Partly
  <2> QED
    BY <2>6
<1>3. n \in N
  <2> HIDE DEF N
  <2> QED
    BY <1>1, <1>2, Reaches
<1> QED
  BY <1>3

\* The rows sorted are those chosen, one after the other.
LEMMA SortedLeaving ==
    ASSUME NEW s, Len(s) \in Nat
    PROVE  \E G : /\ Leaving(G, ToSet(s), Len(s))
                  /\ SortedByNumber(s) = [i \in 1 .. Len(s) |-> LeastOf(G[i - 1])]
<1> DEFINE n == Len(s)
           T == ToSet(s)
           body(f) == [i \in 0 .. n |-> IF i = 0 THEN T ELSE f[i - 1] \ {LeastOf(f[i - 1])}]
           Walk == CHOOSE f : f = body(f)
<1>1. SortedByNumber(s) = [i \in 1 .. n |-> LeastOf(Walk[i - 1])]
  BY DEF SortedByNumber, LeastOf
<1>0. n \in Nat
  OBVIOUS
<1> HIDE DEF n, T
<1>2. PICK G : G = [i \in 0 .. n |-> G[i]] /\ Leaving(G, T, n)
  BY <1>0, LeavingExists
<1>3. G[0] = T /\ \A i \in 1 .. n : G[i] = G[i - 1] \ {LeastOf(G[i - 1])}
  BY <1>2 DEF Leaving
<1>4. G = body(G)
  <2>1. ASSUME NEW i \in 0 .. n
        PROVE  G[i] = IF i = 0 THEN T ELSE G[i - 1] \ {LeastOf(G[i - 1])}
    <3>1. CASE i = 0
      BY <1>3, <3>1
    <3>2. CASE i # 0
      <4>1. i \in 1 .. n
        BY <1>0, <3>2
      <4> QED
        BY <1>3, <3>2, <4>1
    <3> QED
      BY <3>1, <3>2
  <2> QED
    BY <1>2, <2>1
<1> HIDE DEF body
<1>5. Walk = body(Walk)
  BY <1>4
<1> HIDE DEF Walk
<1>6. Walk[0] = T /\ \A i \in 1 .. n : Walk[i] = Walk[i - 1] \ {LeastOf(Walk[i - 1])}
  <2>1. Walk = [i \in 0 .. n |-> IF i = 0 THEN T ELSE Walk[i - 1] \ {LeastOf(Walk[i - 1])}]
    BY <1>5 DEF body
  <2>2. 0 \in 0 .. n /\ \A i \in 1 .. n : i \in 0 .. n /\ i # 0
    BY <1>0
  <2> QED
    BY <2>1, <2>2
<1>7. Leaving(Walk, T, n)
  BY <1>6 DEF Leaving
<1> QED
  BY <1>1, <1>7 DEF n, T

\* The rows that are left are as many as have not been chosen.
LEMMA LeftParts ==
    ASSUME NEW G, NEW T \in SUBSET TraceRow, NEW n \in Nat, IsFiniteSet(T), Cardinality(T) = n,
           Leaving(G, T, n), NEW k \in 0 .. n
    PROVE  /\ G[k] \subseteq T /\ IsFiniteSet(G[k]) /\ Cardinality(G[k]) = n - k
           /\ \A i \in 0 .. k : G[k] \subseteq G[i]
<1> DEFINE Z == {m \in Nat : m <= n => /\ G[m] \subseteq T /\ IsFiniteSet(G[m])
                                       /\ Cardinality(G[m]) = n - m
                                       /\ \A i \in 0 .. m : G[m] \subseteq G[i]}
<1>0. G[0] = T /\ \A i \in 1 .. n : G[i] = G[i - 1] \ {LeastOf(G[i - 1])}
  BY DEF Leaving
<1>1. 0 \in Z
  <2>1. \A i \in 0 .. 0 : i = 0
    OBVIOUS
  <2> QED
    BY <1>0, <2>1
<1>2. ASSUME NEW m \in Nat, m < n, m \in Z PROVE m + 1 \in Z
  <2>1. m <= n /\ m + 1 \in 1 .. n /\ (m + 1) - 1 = m
    BY <1>2
  <2>2. /\ G[m] \subseteq T /\ IsFiniteSet(G[m]) /\ Cardinality(G[m]) = n - m
        /\ \A i \in 0 .. m : G[m] \subseteq G[i]
    BY <1>2, <2>1
  <2>3. G[m + 1] = G[m] \ {LeastOf(G[m])}
    BY <1>0, <2>1
  <2>4. G[m] # {}
    <3>1. n - m # 0
      BY <1>2
    <3> QED
      BY <2>2, <3>1, FS_EmptySet
  <2>5. LeastOf(G[m]) \in G[m]
    BY <2>2, <2>4, LeastOfParts
  <2>6. IsFiniteSet(G[m + 1]) /\ Cardinality(G[m + 1]) = Cardinality(G[m]) - 1
    BY <2>2, <2>3, <2>5, FS_RemoveElement
  <2>7. (n - m) - 1 = n - (m + 1)
    BY <1>2
  <2>8. G[m + 1] \subseteq G[m]
    BY <2>3
  <2>9. ASSUME NEW i \in 0 .. m + 1 PROVE G[m + 1] \subseteq G[i]
    <3>1. CASE i = m + 1
      BY <3>1
    <3>2. CASE i # m + 1
      <4>1. i \in 0 .. m
        BY <1>2, <3>2
      <4> QED
        BY <2>2, <2>8, <4>1
    <3> QED
      BY <3>1, <3>2
  <2> QED
    BY <2>2, <2>6, <2>7, <2>8, <2>9
<1>3. k \in Nat /\ k <= n
  OBVIOUS
<1>4. k \in Z
  <2>1. \A m \in Nat : m < k /\ m \in Z => m + 1 \in Z
    BY <1>2, <1>3
  <2> HIDE DEF Z
  <2> QED
    BY <1>1, <1>3, <2>1, Reaches
<1> QED
  BY <1>3, <1>4

\* Sorted, the rows are the same, and in the order of their numbers.
LEMMA SortedParts ==
    ASSUME NEW s \in Seq(TraceRow), Distinct(s)
    PROVE  LET t == SortedByNumber(s)
           IN  /\ t \in Seq(TraceRow) /\ Len(t) = Len(s) /\ ToSet(t) = ToSet(s)
               /\ Distinct(t) /\ Ranked(t, ByNumber)
<1> DEFINE n == Len(s)
           T == ToSet(s)
           t == SortedByNumber(s)
<1>0. n \in Nat /\ T \in SUBSET TraceRow
  BY SetParts
<1>1. IsFiniteSet(T) /\ Cardinality(T) = n
  BY DistinctCount
<1>2. PICK G : Leaving(G, T, n) /\ t = [i \in 1 .. n |-> LeastOf(G[i - 1])]
  BY <1>0, SortedLeaving
<1> HIDE DEF n, T, t
<1>3. ASSUME NEW k \in 0 .. n
      PROVE  /\ G[k] \subseteq T /\ IsFiniteSet(G[k]) /\ Cardinality(G[k]) = n - k
             /\ \A i \in 0 .. k : G[k] \subseteq G[i]
  BY <1>0, <1>1, <1>2, LeftParts
<1>4. ASSUME NEW i \in 1 .. n
      PROVE  /\ t[i] = LeastOf(G[i - 1]) /\ t[i] \in G[i - 1] /\ t[i] \in T
             /\ \A q \in G[i - 1] : t[i].n <= q.n
             /\ G[i] = G[i - 1] \ {t[i]}
  <2>1. i - 1 \in 0 .. n /\ n - (i - 1) # 0
    BY <1>0
  <2>2. G[i - 1] \subseteq T /\ G[i - 1] # {}
    BY <1>3, <2>1, FS_EmptySet
  <2>3. t[i] = LeastOf(G[i - 1])
    BY <1>2
  <2>4. t[i] \in G[i - 1] /\ \A q \in G[i - 1] : t[i].n <= q.n
    BY <1>0, <2>2, <2>3, LeastOfParts
  <2>5. G[i] = G[i - 1] \ {t[i]}
    BY <1>2, <2>3 DEF Leaving
  <2> QED
    BY <2>2, <2>3, <2>4, <2>5
<1>5. t \in [1 .. n -> TraceRow]
  BY <1>0, <1>2, <1>4
<1>6. t \in Seq(TraceRow) /\ Len(t) = n
  BY <1>0, <1>5, IsASeqFunction
<1>7. ASSUME NEW i \in 1 .. n, NEW j \in 1 .. n, i < j
      PROVE  t[i] # t[j] /\ t[i].n <= t[j].n
  <2>1. j - 1 \in 0 .. n /\ i \in 0 .. j - 1
    BY <1>0, <1>7
  <2>2. G[j - 1] \subseteq G[i]
    BY <1>3, <2>1
  <2>3. t[j] \in G[i - 1] /\ t[j] # t[i]
    BY <1>4, <2>2
  <2> QED
    BY <1>4, <2>3
<1>8. Distinct(t)
  BY <1>6, <1>7 DEF Distinct
<1>9. Ranked(t, ByNumber)
  <2>1. ASSUME NEW i \in 1 .. n, NEW j \in 1 .. n, i < j
        PROVE  RankOf(ByNumber, t[i]) <= RankOf(ByNumber, t[j])
    <3>1. t[i] \in TraceRow /\ t[j] \in TraceRow
      BY <1>5
    <3>2. t[i].n <= t[j].n
      BY <1>7, <2>1
    <3> QED
      BY <3>1, <3>2, RankParts
  <2> QED
    BY <1>6, <2>1 DEF Ranked
<1>10. ToSet(t) \subseteq T
  <2>1. ToSet(t) = {t[i] : i \in 1 .. n}
    BY <1>6, SetParts
  <2> QED
    BY <1>4, <2>1
<1>11. ToSet(t) = T
  <2>1. Cardinality(ToSet(t)) = n
    BY <1>6, <1>8, DistinctCount
  <2> QED
    BY <1>1, <1>10, <2>1, FS_Subset
<1> QED
  BY <1>6, <1>8, <1>9, <1>11 DEF n, T, t

-----------------------------------------------------------------------------
(* TraceQueries: attempts and iterations                                   *)

\* In the order of their numbers.
LEMMA ByNumberAnswered ==
    ASSUME QueryInit, NEW o \in Owner
    PROVE  Answers(MemoryByNumber(o), PgOwned(o), ByNumber, All)
<1> DEFINE s == Owned(o)
           t == SortedByNumber(s)
<1>1. Held(s, PgOwned(o))
  BY MemoryHeld
<1>2. s \in Seq(TraceRow) /\ Rising(s) /\ ToSet(s) = PgOwned(o) /\ Len(s) <= All
  BY <1>1 DEF Held
<1>3. Distinct(s)
  BY <1>2, RisingRanked
<1>4. /\ t \in Seq(TraceRow) /\ Len(t) = Len(s) /\ ToSet(t) = ToSet(s)
      /\ Distinct(t) /\ Ranked(t, ByNumber)
  BY <1>2, <1>3, SortedParts
<1>5. ByNumber \in Orders
  BY DEF Orders
<1> QED
  BY <1>2, <1>4, <1>5, AllAnswer DEF MemoryByNumber

\* The one that is asked for.
LEMMA AttemptAnswered ==
    ASSUME QueryInit, NEW o \in Owner, NEW n
    PROVE  Answers(MemoryAttempt(o, n), PgAttempt(o, n), ById, 1)
<1>1. Held(Owned(o), PgOwned(o))
  BY MemoryHeld
<1>2. MemoryAttempt(o, n) = First(Kept(Owned(o), PgAttempt(o, n)), 1)
  BY <1>1 DEF MemoryAttempt, PgAttempt, Held
<1>3. PgOwned(o) \cap PgAttempt(o, n) = PgAttempt(o, n)
  BY DEF PgAttempt
<1>4. Held(Kept(Owned(o), PgAttempt(o, n)), PgAttempt(o, n))
  BY <1>1, <1>3, KeptHeld
<1> QED
  BY <1>2, <1>4, HeldAnswers

\* One of several numbers is the greatest.
LEMMA GreatestExists ==
    ASSUME NEW n \in Nat, n # 0, NEW f \in [1 .. n -> Nat]
    PROVE  \E k \in 1 .. n : \A j \in 1 .. n : f[j] <= f[k]
<1> DEFINE Top(m, k) == \A j \in 1 .. m : f[j] <= f[k]
           Z == {m \in Nat : m <= n /\ m # 0 => \E k \in 1 .. m : Top(m, k)}
<1>1. 0 \in Z
  OBVIOUS
<1>2. ASSUME NEW m \in Nat, m < n, m \in Z PROVE m + 1 \in Z
  <2>1. m + 1 \in 1 .. n /\ m + 1 \in 1 .. m + 1
    BY <1>2
  <2>2. \A j \in 1 .. m + 1 : j \in 1 .. n /\ f[j] \in Nat /\ (j \in 1 .. m \/ j = m + 1)
    BY <1>2
  <2>3. CASE m = 0
    <3>1. Top(m + 1, m + 1)
      BY <2>2, <2>3
    <3> HIDE DEF Top
    <3> QED
      BY <2>1, <3>1
  <2>4. CASE m # 0
    <3>1. PICK k \in 1 .. m : Top(m, k)
      <4> HIDE DEF Top
      <4> QED
        BY <1>2, <2>4
    <3>2. k \in 1 .. m + 1 /\ f[k] \in Nat /\ f[m + 1] \in Nat
      BY <2>1, <2>2
    <3>3. CASE f[m + 1] <= f[k]
      <4>1. Top(m + 1, k)
        BY <2>2, <3>1, <3>3
      <4> HIDE DEF Top
      <4> QED
        BY <3>2, <4>1
    <3>4. CASE ~(f[m + 1] <= f[k])
      <4>1. ASSUME NEW j \in 1 .. m + 1 PROVE f[j] <= f[m + 1]
        <5>1. CASE j \in 1 .. m
          <6>1. f[j] <= f[k]
            BY <3>1, <5>1
          <6>2. f[j] \in Nat
            BY <2>2
          <6> QED
            BY <3>2, <3>4, <6>1, <6>2
        <5>2. CASE j = m + 1
          BY <3>2, <5>2
        <5> QED
          BY <2>2, <5>1, <5>2
      <4>2. Top(m + 1, m + 1)
        BY <4>1
      <4> HIDE DEF Top
      <4> QED
        BY <2>1, <4>2
    <3> QED
      BY <3>3, <3>4
  <2> QED
    BY <2>3, <2>4
<1>3. n \in Z
  <2> HIDE DEF Z
  <2> QED
    BY <1>1, <1>2, Reaches
<1> QED
  BY <1>3

\* The latest.
LEMMA LatestAnswered ==
    ASSUME QueryInit, NEW o \in Owner
    PROVE  Answers(MemoryLatest(o), PgOwned(o), Greatest, 1)
<1> DEFINE s == Owned(o)
           T == PgOwned(o)
           best == {k \in DOMAIN s : \A j \in DOMAIN s : s[j].n <= s[k].n}
<1>1. Held(s, T)
  BY MemoryHeld
<1>2. s \in Seq(TraceRow) /\ Rising(s) /\ ToSet(s) = T
  BY <1>1 DEF Held
<1>3. Distinct(s)
  BY <1>2, RisingRanked
<1>4. IsFiniteSet(T) /\ Cardinality(T) = Len(s)
  BY <1>2, <1>3, DistinctCount
<1>5. /\ DOMAIN s = 1 .. Len(s) /\ Len(s) \in Nat /\ T \subseteq TraceRow
      /\ T = {s[i] : i \in 1 .. Len(s)}
  BY <1>2, SetParts
<1>6. MemoryLatest(o) = IF s = <<>> THEN <<>>
                        ELSE <<s[CHOOSE k \in best : \A j \in best : k <= j]>>
  BY DEF MemoryLatest
<1> HIDE DEF s, T
<1>7. CASE s = <<>>
  <2>1. Len(s) = 0
    BY <1>7
  <2>2. MemoryLatest(o) = First(s, 1)
    <3>1. First(s, 1) = s
      <4>1. Len(s) <= 1 /\ 1 \in Nat
        BY <2>1
      <4> QED
        BY <1>2, <4>1, FirstAll
    <3> QED
      BY <1>6, <1>7, <3>1
  <2>3. Greatest \in Orders /\ Ranked(s, Greatest)
    BY <2>1 DEF Orders, Ranked
  <2> QED
    BY <1>2, <1>3, <2>2, <2>3, FirstAnswers DEF T
<1>8. CASE s # <<>>
  <2>1. Len(s) # 0
    BY <1>2, <1>8, EmptySeq
  <2> DEFINE k0 == CHOOSE k \in best : \A j \in best : k <= j
  <2>2. best # {}
    <3>1. ASSUME NEW j \in 1 .. Len(s) PROVE s[j].n \in Nat
      <4>1. s[j] \in TraceRow
        BY <1>2
      <4> QED
        BY <4>1 DEF TraceRow
    <3> DEFINE f == [j \in 1 .. Len(s) |-> s[j].n]
    <3>2. f \in [1 .. Len(s) -> Nat] /\ \A j \in 1 .. Len(s) : f[j] = s[j].n
      BY <3>1
    <3> HIDE DEF f
    <3>3. PICK k \in 1 .. Len(s) : \A j \in 1 .. Len(s) : f[j] <= f[k]
      BY <1>5, <2>1, <3>2, GreatestExists
    <3>4. k \in DOMAIN s /\ \A j \in DOMAIN s : s[j].n <= s[k].n
      BY <1>5, <3>2, <3>3
    <3> QED
      BY <3>4
  <2>3. k0 \in best
    <3>1. best \in SUBSET Nat
      BY <1>5
    <3> HIDE DEF best
    <3>2. \E k \in best : \A j \in best : k <= j
      BY <2>2, <3>1, LeastExists
    <3> QED
      BY <3>2
  <2>4. k0 \in 1 .. Len(s) /\ \A j \in 1 .. Len(s) : s[j].n <= s[k0].n
    <3> HIDE DEF k0
    <3> QED
      BY <1>5, <2>3
  <2> HIDE DEF k0
  <2> DEFINE e == s[k0]
             a == <<e>>
  <2>5. MemoryLatest(o) = a
    BY <1>6, <1>8 DEF k0
  <2>6. e \in T /\ e \in TraceRow /\ \A r \in T : r.n <= e.n
    BY <1>5, <2>4
  <2> HIDE DEF e
  <2>7. DOMAIN a = {1} /\ a[1] = e /\ Range(a) = {e} /\ Len(a) = 1
    BY DEF Range
  <2> HIDE DEF a
  <2>8. IsInjective(a) /\ Range(a) \subseteq T
    BY <2>6, <2>7 DEF IsInjective
  <2>9. Len(a) = IF Cardinality(T) < 1 THEN Cardinality(T) ELSE 1
    <3>1. ~(Len(s) < 1)
      BY <1>5, <2>1
    <3> QED
      BY <1>4, <2>7, <3>1
  <2>10. \A r \in T : RankOf(Greatest, e) <= RankOf(Greatest, r)
    <3>1. ASSUME NEW r \in T PROVE RankOf(Greatest, e) <= RankOf(Greatest, r)
      <4>1. r \in TraceRow /\ r.n <= e.n
        BY <1>5, <2>6
      <4>2. RankOf(Greatest, r) = -r.n /\ RankOf(Greatest, e) = -e.n /\ r.n \in Nat /\ e.n \in Nat
        BY <2>6, <4>1, RankParts
      <4> QED
        BY <4>1, <4>2
    <3> QED
      BY <3>1
  <2>11. /\ \A i, j \in DOMAIN a : i < j => RankOf(Greatest, a[i]) <= RankOf(Greatest, a[j])
         /\ \A i \in DOMAIN a : \A r \in T \ Range(a) : RankOf(Greatest, a[i]) <= RankOf(Greatest, r)
    BY <2>7, <2>10
  <2>12. Answers(a, T, Greatest, 1)
    BY <2>8, <2>9, <2>11 DEF Answers, RankOf
  <2> QED
    BY <2>5, <2>12 DEF T
<1> QED
  BY <1>7, <1>8
-----------------------------------------------------------------------------
(* TraceQueries: the theorem                                               *)

\* For every number of writes, numbers and limits: whatever was written, what
\* the in-memory readers return of it is an answer of PostgreSQL.
THEOREM TraceReadersAlwaysAgree ==
    ASSUME QueryInit
    PROVE  TraceReadersAgree
<1>1. /\ 1 .. MaxN \subseteq Nat /\ 0 .. MaxWrites \subseteq Nat
  BY QueryAssumption
<1>2. ReadersAgree
  BY <1>1, RowsAnswered, TranscriptsAnswered DEF ReadersAgree
<1>3. EventReadersAgree
  BY <1>1, EventsAnswered DEF EventReadersAgree
<1>4. Range(Memory) = Pg
  <2>1. Memory \in Seq(TraceRow) /\ Pg = ToSet(Memory)
    BY BothWritten
  <2> QED
    BY <2>1, SetParts DEF Range
<1>5. AttemptsAgree
  BY <1>4, ByNumberAnswered, LatestAnswered, AttemptAnswered DEF AttemptsAgree
<1> QED
  BY <1>2, <1>3, <1>5 DEF TraceReadersAgree

=============================================================================
