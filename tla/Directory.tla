----------------------------- MODULE Directory ------------------------------
(***************************************************************************)
(* The principals of a deployment and the services that create and delete  *)
(* them: create_principal with its self-subscription, delete_principal,    *)
(* subscribe and unsubscribe, start_run up to its first event, the sweep   *)
(* of orphaned run principals, and the seeding of the system principal.    *)
(*                                                                         *)
(* A client is a request in some process; each of its steps is one         *)
(* transaction of the PostgreSQL backends, and it may die between any two. *)
(* The foreign keys are those of SchemaTables.                             *)
(***************************************************************************)
EXTENDS Integers, FiniteSets

CONSTANTS
    Caller,     \* requests
    Ref,        \* external references of users
    MaxRows,    \* bound: principals, subscriptions and runs ever created
    MaxRequests \* bound: requests ever made

ASSUME DirectoryAssumption == MaxRows \in Nat /\ MaxRequests \in Nat

VARIABLES
    principals, \* rows [id, kind, ref]
    old,        \* ids of the principals older than _ORPHAN_SWEEP_AGE
    subs,       \* rows [id, owner]
    actions,    \* rows [sub, position]
    runs,       \* rows [id, by]
    events,     \* the principals that events are attributed to
    request,    \* what a client is doing
    rowsMade,   \* ids given out
    made,       \* requests made
    removed,    \* observation: the principals that delete_principal deleted
    dropped,    \* observation: the subscriptions someone began to unsubscribe
    promised    \* observation: the subscriptions whose creation was reported

dirVars == <<principals, old, subs, actions, runs, events, request, rowsMade,
             made, removed, dropped, promised>>
tables == <<principals, old, subs, actions, runs, events>>
observed == <<removed, dropped, promised>>

Idle == [op |-> "none", at |-> "idle"]
IsSystem(p) == p.kind = "system"
WithRef(kind, ref) == {p \in principals : p.kind = kind /\ p.ref = ref}

\* The caller's principal, with which every request of a user is made.
Anchor == [id |-> 0, kind |-> "user", ref |-> "anchor"]

DirectoryInit ==
    /\ principals = {Anchor}
    /\ old = {} /\ subs = {} /\ actions = {} /\ runs = {} /\ events = {}
    /\ request = [c \in Caller |-> Idle]
    /\ rowsMade = 0 /\ made = 0
    /\ removed = {} /\ dropped = {} /\ promised = {}

At(c, op, at) == request[c].op = op /\ request[c].at = at
Goto(c, at) == request' = [request EXCEPT ![c].at = at]
End(c) == request' = [request EXCEPT ![c] = Idle]

Begin(c, r) ==
    /\ request[c] = Idle /\ made < MaxRequests
    /\ request' = [request EXCEPT ![c] = r]
    /\ made' = made + 1
    /\ UNCHANGED <<tables, rowsMade, observed>>

-----------------------------------------------------------------------------
(* The requests.                                                           *)

\* create_principal: an API call never mints a system principal; the kinds that
\* may have a self-subscription must say for which events.
CreatePrincipal(c) ==
    \E ref \in Ref :
        Begin(c, [op |-> "create", at |-> "mint", kind |-> "user", ref |-> ref,
                  principal |-> -1, sub |-> -1, position |-> 0, last |-> 0])

\* The startup of a server, and db init: the system principal is minted.
Seed(c) ==
    Begin(c, [op |-> "seed", at |-> "mint", kind |-> "system", ref |-> "zero",
              principal |-> -1])

\* start_run: the run's id is made first.
StartRun(c) ==
    /\ rowsMade < MaxRows
    /\ request[c] = Idle /\ made < MaxRequests
    /\ request' = [request EXCEPT ![c] =
                      [op |-> "start", at |-> "mint", kind |-> "run",
                       ref |-> rowsMade + 1, principal |-> -1]]
    /\ made' = made + 1 /\ rowsMade' = rowsMade + 1
    /\ UNCHANGED <<tables, observed>>

\* subscribe, with two actions, for the caller's principal.
SubscribeCaller(c) ==
    \E p \in principals :
        /\ p.kind = "user"
        /\ Begin(c, [op |-> "subscribe", at |-> "subscription", principal |-> p.id,
                     sub |-> -1, position |-> 0, last |-> 1])

Unsubscribe(c) ==
    \E s \in subs : Begin(c, [op |-> "unsubscribe", at |-> "get", sub |-> s.id])

DeletePrincipal(c) ==
    \E p \in principals : Begin(c, [op |-> "delete", at |-> "get", principal |-> p.id])

-----------------------------------------------------------------------------
(* mint_principal.                                                         *)

MintTo(c) ==
    CASE request[c].op = "create" -> "subscription"
      [] request[c].op = "start" -> "run"
      [] OTHER -> "done"

\* INSERT ... ON CONFLICT DO NOTHING inserts the row; the SELECT of the same
\* transaction then finds it.
MintInserts(c) ==
    /\ request[c].at = "mint" /\ rowsMade < MaxRows
    /\ WithRef(request[c].kind, request[c].ref) = {}
    /\ rowsMade' = rowsMade + 1
    /\ principals' = principals \union
           {[id |-> rowsMade + 1, kind |-> request[c].kind, ref |-> request[c].ref]}
    /\ request' = [request EXCEPT ![c].at = MintTo(c), ![c].principal = rowsMade + 1]
    /\ UNCHANGED <<old, subs, actions, runs, events, made, observed>>

\* It does nothing: the row is there, committed, and stays unlocked.
MintConflicts(c) ==
    /\ request[c].at = "mint"
    /\ WithRef(request[c].kind, request[c].ref) # {}
    /\ Goto(c, "select")
    /\ UNCHANGED <<tables, rowsMade, made, observed>>

\* The SELECT after it; a row that went in between fails the assertion.
MintSelects(c) ==
    /\ request[c].at = "select"
    /\ \/ \E p \in WithRef(request[c].kind, request[c].ref) :
              request' = [request EXCEPT ![c].at = MintTo(c), ![c].principal = p.id]
       \/ WithRef(request[c].kind, request[c].ref) = {} /\ End(c)
    /\ UNCHANGED <<tables, rowsMade, made, observed>>

\* What create_principal and Seed return: nothing more is stored.
Return(c) ==
    /\ request[c].at = "done"
    /\ End(c)
    /\ promised' = promised \union
           IF request[c].op \in {"create", "subscribe"}
           THEN {[id |-> request[c].sub, owner |-> request[c].principal,
                  last |-> request[c].last]}
           ELSE {}
    /\ UNCHANGED <<tables, rowsMade, made, removed, dropped>>

-----------------------------------------------------------------------------
(* Subscriptions.                                                          *)

\* create_subscription: the owner must exist.
CreateSubscription(c) ==
    /\ request[c].at = "subscription" /\ rowsMade < MaxRows
    /\ IF \E p \in principals : p.id = request[c].principal
       THEN /\ rowsMade' = rowsMade + 1
            /\ subs' = subs \union {[id |-> rowsMade + 1, owner |-> request[c].principal]}
            /\ request' = [request EXCEPT ![c].at = "action", ![c].sub = rowsMade + 1]
       ELSE End(c) /\ UNCHANGED <<subs, rowsMade>>
    /\ UNCHANGED <<principals, old, actions, runs, events, made, observed>>

\* create_action, once for each position: the subscription must exist.
CreateAction(c) ==
    /\ request[c].at = "action"
    /\ IF \E s \in subs : s.id = request[c].sub
       THEN /\ actions' = actions \union
                   {[sub |-> request[c].sub, position |-> request[c].position]}
            /\ request' = IF request[c].position = request[c].last
                          THEN [request EXCEPT ![c].at = "done"]
                          ELSE [request EXCEPT ![c].position = @ + 1]
       ELSE End(c) /\ UNCHANGED actions
    /\ UNCHANGED <<principals, old, subs, runs, events, rowsMade, made, observed>>

\* unsubscribe: get_subscription, delete_actions, delete_subscription.
UnsubscribeGet(c) ==
    /\ At(c, "unsubscribe", "get")
    /\ IF \E s \in subs : s.id = request[c].sub
       THEN Goto(c, "actions") ELSE End(c)
    /\ UNCHANGED <<tables, rowsMade, made, observed>>

DeleteActions(c) ==
    /\ request[c].at = "actions"
    /\ actions' = {a \in actions : a.sub # request[c].sub}
    /\ dropped' = dropped \union {request[c].sub}
    /\ Goto(c, "subscriptions")
    /\ UNCHANGED <<principals, old, subs, runs, events, rowsMade, made, removed,
                   promised>>

DeleteSubscription(c) ==
    /\ request[c].at = "subscriptions"
    /\ subs' = {s \in subs : s.id # request[c].sub}
    /\ actions' = {a \in actions : a.sub # request[c].sub}
    /\ End(c)
    /\ UNCHANGED <<principals, old, runs, events, rowsMade, made, observed>>

-----------------------------------------------------------------------------
(* Runs.                                                                   *)

\* create_run, with the id its principal refers to: the caller, who creates it,
\* must exist.
InsertRun(c) ==
    /\ At(c, "start", "run")
    /\ IF \E p \in principals : p.id = Anchor.id
       THEN /\ runs' = runs \union {[id |-> request[c].ref, by |-> Anchor.id]}
            /\ Goto(c, "sweep")
       ELSE End(c) /\ UNCHANGED runs
    /\ UNCHANGED <<principals, old, subs, actions, events, rowsMade, made, observed>>

\* The principals DELETE takes: none that something RESTRICTs, and with them
\* what CASCADEs.
Restricted(id) == id \in events \/ \E r \in runs : r.by = id
RemovePrincipals(gone) ==
    /\ principals' = {p \in principals : p.id \notin gone}
    /\ subs' = {s \in subs : s.owner \notin gone}
    /\ actions' = {a \in actions : \E s \in subs : s.id = a.sub /\ s.owner \notin gone}

\* Mutant: no age guard.
SweepAll(c) ==
    LET gone == {p.id : p \in {p \in principals : /\ p.kind = "run"
                                                  /\ \A r \in runs : r.id # p.ref}}
    IN  /\ At(c, "start", "sweep")
        /\ RemovePrincipals(gone)
        /\ Goto(c, "event")
        /\ UNCHANGED <<old, runs, events, rowsMade, made, observed>>

\* sweep_orphaned_run_principals, one statement; a principal that something
\* refers to fails it whole.
Sweep(c) ==
    LET gone == {p.id : p \in {p \in principals : /\ p.kind = "run"
                                                  /\ \A r \in runs : r.id # p.ref
                                                  /\ p.id \in old}}
    IN  /\ At(c, "start", "sweep")
        /\ IF \E id \in gone : Restricted(id)
           THEN End(c) /\ UNCHANGED <<principals, subs, actions>>
           ELSE RemovePrincipals(gone) /\ Goto(c, "event")
        /\ UNCHANGED <<old, runs, events, rowsMade, made, observed>>

\* transition_run: the first event the run's principal is named in.
FirstEvent(c) ==
    /\ At(c, "start", "event")
    /\ events' = events \union {p.id : p \in {p \in principals :
                                                  p.id = request[c].principal}}
    /\ End(c)
    /\ UNCHANGED <<principals, old, subs, actions, runs, rowsMade, made, observed>>

-----------------------------------------------------------------------------
(* Deleting a principal.                                                   *)

\* delete_principal reads the row first, and refuses the system principal.
DeleteGet(c) ==
    /\ At(c, "delete", "get")
    /\ IF \E p \in principals : p.id = request[c].principal /\ IsSystem(p)
       THEN End(c) ELSE Goto(c, "delete")
    /\ UNCHANGED <<tables, rowsMade, made, observed>>

\* The DELETE; a RESTRICT becomes PrincipalInUseError.
Delete(c) ==
    /\ At(c, "delete", "delete")
    /\ End(c)
    /\ IF Restricted(request[c].principal)
       THEN UNCHANGED <<principals, subs, actions, removed>>
       ELSE /\ RemovePrincipals({request[c].principal})
            /\ removed' = removed \union {p \in principals : p.id = request[c].principal}
    /\ UNCHANGED <<old, runs, events, rowsMade, made, dropped, promised>>

-----------------------------------------------------------------------------
\* The process of a request dies between two of its transactions.
Die(c) ==
    /\ request[c] # Idle
    /\ End(c)
    /\ UNCHANGED <<tables, rowsMade, made, observed>>

\* Five minutes pass: far longer, says the code, than start_run takes from its
\* mint to its row.
Age ==
    /\ \A c \in Caller : request[c].op = "start" =>
           request[c].at \notin {"select", "run"}
    /\ old # {p.id : p \in principals}
    /\ old' = {p.id : p \in principals}
    /\ UNCHANGED <<principals, subs, actions, runs, events, request, rowsMade, made, observed>>

DirectoryStep(c) ==
    \/ CreatePrincipal(c) \/ Seed(c) \/ StartRun(c) \/ SubscribeCaller(c)
    \/ Unsubscribe(c) \/ DeletePrincipal(c)
    \/ MintInserts(c) \/ MintConflicts(c) \/ MintSelects(c) \/ Return(c)
    \/ CreateSubscription(c) \/ CreateAction(c)
    \/ UnsubscribeGet(c) \/ DeleteActions(c) \/ DeleteSubscription(c)
    \/ InsertRun(c) \/ Sweep(c) \/ FirstEvent(c)
    \/ DeleteGet(c) \/ Delete(c)
    \/ Die(c)

DirectoryNext == (\E c \in Caller : DirectoryStep(c)) \/ Age

DirectorySpec == DirectoryInit /\ [][DirectoryNext]_dirVars

-----------------------------------------------------------------------------
(* Properties.                                                             *)

\* However many processes mint the same actor at the same time, it has one
\* principal; in particular there is one system principal (mint_principal).
OneRowPerActor ==
    \A p, q \in principals : p.kind = q.kind /\ (p.ref = q.ref \/ IsSystem(p)) => p = q

\* The system principal is never deleted, whoever asks and however the requests
\* interleave (delete_principal reads before it deletes).
SystemStays == \A p \in removed : ~IsSystem(p)

\* The sweep takes only what crashed starts left behind: a run that has a row,
\* or a start that is on its way to one, keeps its principal unless someone
\* deletes that principal by name (sweep_orphaned_run_principals, start_run).
RunsKeepPrincipals ==
    /\ \A r \in runs : \E p \in principals \union removed :
           p.kind = "run" /\ p.ref = r.id
    /\ \A c \in Caller : At(c, "start", "run") => \E p \in principals \union removed :
           p.id = request[c].principal

\* A subscription whose creation was reported has its owner and every one of its
\* actions until it is unsubscribed or its owner is deleted, and no action
\* outlives its subscription (subscribe, _create_self_subscription, unsubscribe).
SubscriptionsWhole ==
    /\ \A s \in promised :
           \/ s.id \in dropped \/ \E p \in removed : p.id = s.owner
           \/ /\ \E t \in subs : t.id = s.id
              /\ \E p \in principals : p.id = s.owner
              /\ \A i \in 0 .. s.last : [sub |-> s.id, position |-> i] \in actions
    /\ \A a \in actions : \E s \in subs : s.id = a.sub

\* What the directory holds together while requests interleave and die: one
\* principal per actor, the system's for ever, a run's as long as the run needs
\* it, and subscriptions with all of their actions.
DirectoryWhole ==
    OneRowPerActor /\ SystemStays /\ RunsKeepPrincipals /\ SubscriptionsWhole
=============================================================================
