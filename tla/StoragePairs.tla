---------------------------- MODULE StoragePairs ----------------------------
(***************************************************************************)
(* The stores that come twice, over PostgreSQL and in memory: the dispatch *)
(* backend, the principals, the consumers with their credentials, and the  *)
(* notification deliveries.  Every operation is done on both; what they    *)
(* answer is compared.                                                     *)
(*                                                                         *)
(* An operation that PostgreSQL refuses because a row it needs is not      *)
(* there is not made: the stores in memory have no foreign keys, and say   *)
(* so.  Rows are kept in the order of their creation, which is that of     *)
(* their ids and of created_at.                                            *)
(***************************************************************************)
EXTENDS RowLists, FiniteSets, FiniteSetsExt

CONSTANTS
    MaxStored, \* bound: rows ever created
    MaxSteps,  \* bound: operations
    Slugs,     \* of sources
    Owners,    \* of subscriptions, and the targets of deliveries
    Refs,      \* what principals refer to
    Events,    \* events that actions complete
    Digests,   \* hashes of credentials
    Limits     \* sizes of batches

ASSUME StorageAssumption == MaxStored \in Nat /\ MaxSteps \in Nat /\ Limits \subseteq Nat

VARIABLES
    store,  \* which of the four is looked at
    pg,     \* the rows in PostgreSQL
    mem,    \* the dictionaries in memory
    answer, \* what the two answered last
    lent,   \* the entries of the last batch claimed
    stored, \* rows ever created
    done    \* operations made

pairVars == <<store, pg, mem, answer, lent, stored, done>>

Ids(s) == {s[i].id : i \in 1 .. Len(s)}
Dropped(s, ids) == Kept(s, {r \in ToSet(s) : r.id \notin ids})
Has(s, id) == id \in Ids(s)
RowOf(s, id) == s[CHOOSE i \in 1 .. Len(s) : s[i].id = id]
Updated(s, id, field, v) ==
    [i \in 1 .. Len(s) |-> IF s[i].id = id THEN [s[i] EXCEPT ![field] = v] ELSE s[i]]

Both(p, m, ap, am) ==
    /\ pg' = p /\ mem' = m
    /\ answer' = [pg |-> ap, mem |-> am]
    /\ done < MaxSteps /\ done' = done + 1
    /\ UNCHANGED store
Same(p, m) == Both(p, m, "ok", "ok")
Keeps == UNCHANGED <<lent, stored>>
Creates == stored < MaxStored /\ stored' = stored + 1 /\ UNCHANGED lent

PairsInit ==
    /\ store \in {"dispatch", "principals", "consumers", "deliveries"}
    /\ pg = [sources |-> <<>>, subs |-> <<>>, actions |-> <<>>, buffer |-> <<>>,
             completions |-> {}, principals |-> <<>>, runs |-> {},
             consumers |-> <<>>, credentials |-> <<>>, deliveries |-> <<>>]
    /\ mem = [sources |-> <<>>, subs |-> <<>>, actions |-> <<>>, buffer |-> <<>>,
              completions |-> {}, claimed |-> {}, principals |-> <<>>, runs |-> {},
              consumers |-> <<>>, credentials |-> <<>>, deliveries |-> <<>>]
    /\ answer = [pg |-> "ok", mem |-> "ok"]
    /\ lent = <<>> /\ stored = 0 /\ done = 0

-----------------------------------------------------------------------------
(* The dispatch backend.                                                   *)

\* create_source: the unique slug, and the loop over the dictionary.
PgSource(slug) ==
    IF \E i \in 1 .. Len(pg.sources) : pg.sources[i].slug = slug
    THEN [rows |-> pg.sources, answer |-> "error"]
    ELSE [rows |-> Append(pg.sources, [id |-> stored + 1, slug |-> slug]), answer |-> "ok"]
MemorySource(slug) ==
    IF \E i \in 1 .. Len(mem.sources) : mem.sources[i].slug = slug
    THEN [rows |-> mem.sources, answer |-> "error"]
    ELSE [rows |-> Append(mem.sources, [id |-> stored + 1, slug |-> slug]), answer |-> "ok"]

CreateSource ==
    \E slug \in Slugs :
        /\ Both([pg EXCEPT !.sources = PgSource(slug).rows],
                [mem EXCEPT !.sources = MemorySource(slug).rows],
                PgSource(slug).answer, MemorySource(slug).answer)
        /\ Creates

DeleteSource ==
    \E id \in 1 .. stored :
        /\ Same([pg EXCEPT !.sources = Dropped(@, {id})],
                [mem EXCEPT !.sources = Dropped(@, {id})])
        /\ Keeps

\* subscribe: the row and its two actions.
NewSubscription(owner) == [id |-> stored + 1, owner |-> owner, enabled |-> TRUE]
NewActions == [i \in 1 .. 2 |-> [id |-> <<stored + 1, i - 1>>, sub |-> stored + 1,
                                 position |-> i - 1]]
SubscribeBoth ==
    \E owner \in Owners :
        /\ Same([pg EXCEPT !.subs = Append(@, NewSubscription(owner)),
                           !.actions = @ \o NewActions],
                [mem EXCEPT !.subs = Append(@, NewSubscription(owner)),
                            !.actions = @ \o NewActions])
        /\ Creates

\* update_subscription: no row is a KeyError in both.
UpdateSubscription ==
    \E id \in 1 .. stored, enabled \in BOOLEAN :
        /\ Both([pg EXCEPT !.subs = Updated(@, id, "enabled", enabled)],
                [mem EXCEPT !.subs = Updated(@, id, "enabled", enabled)],
                IF Has(pg.subs, id) THEN "ok" ELSE "error",
                IF Has(mem.subs, id) THEN "ok" ELSE "error")
        /\ Keeps

\* unsubscribe: the actions, then the row.  In PostgreSQL the entries and the
\* completions of the actions go with them.
PgUnsubscribe(id) ==
    LET gone == {a \in ToSet(pg.actions) : a.sub = id}
        ids == {a.id : a \in gone}
    IN  [pg EXCEPT !.subs = Dropped(@, {id}),
                   !.actions = Kept(@, {a \in ToSet(@) : a.sub # id}),
                   !.buffer = Kept(@, {e \in ToSet(@) : e.action \notin ids}),
                   !.completions = {k \in @ : k[2] \notin ids}]
MemoryUnsubscribe(id) ==
    [mem EXCEPT !.subs = Dropped(@, {id}),
                !.actions = Kept(@, {a \in ToSet(@) : a.sub # id})]
UnsubscribeBoth ==
    \E id \in Ids(pg.subs) : Same(PgUnsubscribe(id), MemoryUnsubscribe(id)) /\ Keeps

\* buffer_event.
BufferEvent ==
    \E a \in ToSet(pg.actions) :
        LET e == [id |-> stored + 1, action |-> a.id]
        IN  /\ Same([pg EXCEPT !.buffer = Append(@, e)], [mem EXCEPT !.buffer = Append(@, e)])
            /\ Creates

\* The entries of an action.
EntriesOf(s, action) == {e \in ToSet(s) : e.action = action}

\* claim_batch deletes the rows in PostgreSQL, and remembers them in memory.
PgClaim(action, limit) ==
    First(Kept(pg.buffer, EntriesOf(pg.buffer, action)), limit)
\* Mutant: an entry already claimed is handed out again.
MemoryClaimAgain(action, limit) ==
    First(Kept(mem.buffer, EntriesOf(mem.buffer, action)), limit)
MemoryClaim(action, limit) ==
    First(Kept(mem.buffer, {e \in EntriesOf(mem.buffer, action) : e.id \notin mem.claimed}), limit)

ClaimBatch ==
    \E a \in ToSet(pg.actions), limit \in Limits :
        LET p == PgClaim(a.id, limit)
            m == MemoryClaim(a.id, limit)
        IN  /\ Both([pg EXCEPT !.buffer = Dropped(@, Ids(p))],
                    [mem EXCEPT !.claimed = @ \union Ids(m)], p, m)
            /\ lent' = m /\ UNCHANGED stored

\* confirm_batch, of the batch claimed last; a flush that fails never confirms.
ConfirmBatch ==
    /\ lent # <<>>
    /\ Same([pg EXCEPT !.buffer = Dropped(@, Ids(lent))],
            [mem EXCEPT !.buffer = Dropped(@, Ids(lent)),
                        !.claimed = @ \ Ids(lent)])
    /\ lent' = <<>> /\ UNCHANGED stored

\* record_completion: once per event and action.
RecordCompletion ==
    \E a \in ToSet(pg.actions), event \in Events :
        /\ Same([pg EXCEPT !.completions = @ \union {<<event, a.id>>}],
                [mem EXCEPT !.completions = @ \union {<<event, a.id>>}])
        /\ Keeps

PgPending(action) == Len(Kept(pg.buffer, EntriesOf(pg.buffer, action)))
MemoryPending(action) == Len(Kept(mem.buffer, EntriesOf(mem.buffer, action)))

\* list_subscriptions.
PgSubscriptions(enabled, owners) ==
    Kept(pg.subs, {r \in ToSet(pg.subs) : (enabled => r.enabled) /\ r.owner \in owners})
MemorySubscriptions(enabled, owners) ==
    LET some == Kept(mem.subs, {r \in ToSet(mem.subs) : enabled => r.enabled})
    IN  Kept(some, {r \in ToSet(some) : r.owner \in owners})

\* list_actions, by position.
ByPosition(s) == SortSeq(s, LAMBDA a, b : a.position < b.position)
PgActions(sub) == ByPosition(Kept(pg.actions, {a \in ToSet(pg.actions) : a.sub = sub}))
MemoryActions(sub) == ByPosition(Kept(mem.actions, {a \in ToSet(mem.actions) : a.sub = sub}))

DispatchStep ==
    /\ store = "dispatch"
    /\ \/ CreateSource \/ DeleteSource \/ SubscribeBoth \/ UpdateSubscription
       \/ UnsubscribeBoth \/ BufferEvent \/ ClaimBatch \/ ConfirmBatch
       \/ RecordCompletion

-----------------------------------------------------------------------------
(* The principals.  A principal is born at the operation that mints it and *)
(* is older than the limit of a sweep two operations later.                *)

MintRow(kind, ref) == [id |-> stored + 1, kind |-> kind, ref |-> ref, name |-> "none",
                       born |-> done]
FindRef(s, kind, ref) == Kept(s, {r \in ToSet(s) : r.kind = kind /\ r.ref = ref})

\* mint_principal: ON CONFLICT DO NOTHING and SELECT, or _find_by_ref.
Mint ==
    \E kind \in {"run", "user"}, ref \in Refs :
        LET p == IF FindRef(pg.principals, kind, ref) # <<>> THEN pg.principals
                 ELSE Append(pg.principals, MintRow(kind, ref))
            m == IF FindRef(mem.principals, kind, ref) # <<>> THEN mem.principals
                 ELSE Append(mem.principals, MintRow(kind, ref))
        IN  /\ Both([pg EXCEPT !.principals = p], [mem EXCEPT !.principals = m],
                    FindRef(p, kind, ref)[1].id, FindRef(m, kind, ref)[1].id)
            /\ Creates

\* update_display_name.
Rename ==
    \E id \in 1 .. stored :
        /\ Both([pg EXCEPT !.principals = Updated(@, id, "name", "new")],
                [mem EXCEPT !.principals = Updated(@, id, "name", "new")],
                IF Has(pg.principals, id) THEN "ok" ELSE "error",
                IF Has(mem.principals, id) THEN "ok" ELSE "error")
        /\ Keeps

\* delete_principal, of a principal that nothing refers to; absence is no error.
DeleteBoth ==
    \E id \in 1 .. stored :
        /\ Same([pg EXCEPT !.principals = Dropped(@, {id})],
                [mem EXCEPT !.principals = Dropped(@, {id})])
        /\ Keeps

RunBoth ==
    \E ref \in Refs \ pg.runs :
        Same([pg EXCEPT !.runs = @ \union {ref}], [mem EXCEPT !.runs = @ \union {ref}])
            /\ Keeps

\* sweep_orphaned_run_principals: NOT EXISTS and created_at < now() - older_than.
PgOrphan(r) == r.kind = "run" /\ r.ref \notin pg.runs /\ r.born < done - 1
MemoryOrphan(r) == r.kind = "run" /\ r.ref \notin mem.runs /\ r.born < done - 1

SweepBoth ==
    LET p == Kept(pg.principals, {r \in ToSet(pg.principals) : ~PgOrphan(r)})
        m == Kept(mem.principals, {r \in ToSet(mem.principals) : ~MemoryOrphan(r)})
    IN  /\ Both([pg EXCEPT !.principals = p], [mem EXCEPT !.principals = m],
                Len(pg.principals) - Len(p), Len(mem.principals) - Len(m))
        /\ Keeps

PrincipalStep ==
    store = "principals" /\ (Mint \/ Rename \/ DeleteBoth \/ RunBoth \/ SweepBoth)

-----------------------------------------------------------------------------
(* The consumers and their credentials.                                    *)

\* create_consumer, for a principal of its own.
CreateConsumer ==
    LET r == [id |-> stored + 1, disabled |-> FALSE]
    IN  /\ Same([pg EXCEPT !.consumers = Append(@, r)],
                [mem EXCEPT !.consumers = Append(@, r)])
        /\ Creates

\* disable_consumer, of a consumer that is there: only the one in memory
\* complains of one that is not.
DisableConsumer ==
    \E id \in Ids(pg.consumers) :
        /\ Same([pg EXCEPT !.consumers = Updated(@, id, "disabled", TRUE)],
                [mem EXCEPT !.consumers = Updated(@, id, "disabled", TRUE)])
        /\ Keeps

\* create_credential: of the raw value, whose hash may be there already.
CreateCredential ==
    \E c \in Ids(pg.consumers), hash \in Digests, type \in {"bearer", "hmac"} :
        LET r == [id |-> stored + 1, consumer |-> c, type |-> type, hash |-> hash]
        IN  /\ Same([pg EXCEPT !.credentials = Append(@, r)],
                    [mem EXCEPT !.credentials = Append(@, r)])
            /\ Creates

\* get_credential_by_hash: any row of that hash in PostgreSQL, which has no
\* ORDER BY; the first in memory.
PgByHash(hash) == {r \in ToSet(pg.credentials) : r.hash = hash}
MemoryByHash(hash) ==
    ToSet(First(Kept(mem.credentials, {r \in ToSet(mem.credentials) : r.hash = hash}), 1))

\* get_credentials_by_consumer.
PgOfConsumer(c, types) ==
    {r \in ToSet(pg.credentials) : r.consumer = c /\ r.type \in types}
MemoryOfConsumer(c, types) ==
    LET own == Kept(mem.credentials, {r \in ToSet(mem.credentials) : r.consumer = c})
    IN  ToSet(Kept(own, {r \in ToSet(own) : r.type \in types}))

ConsumerStep ==
    store = "consumers" /\ (CreateConsumer \/ DisableConsumer \/ CreateCredential)

-----------------------------------------------------------------------------
(* The notification deliveries.                                            *)

CreateDelivery ==
    \E target \in Owners :
        LET r == [id |-> stored + 1, target |-> target, acked |-> FALSE]
        IN  /\ Same([pg EXCEPT !.deliveries = Append(@, r)],
                    [mem EXCEPT !.deliveries = Append(@, r)])
            /\ Creates

\* acknowledge: absent or acknowledged is a KeyError in both.
Acknowledge ==
    \E id \in 1 .. stored :
        LET AckedIn(s) == Has(s, id) /\ ~RowOf(s, id).acked
        IN  /\ Both([pg EXCEPT !.deliveries = Updated(@, id, "acked", TRUE)],
                    [mem EXCEPT !.deliveries = Updated(@, id, "acked", TRUE)],
                    IF AckedIn(pg.deliveries) THEN "ok" ELSE "error",
                    IF AckedIn(mem.deliveries) THEN "ok" ELSE "error")
            /\ Keeps

\* list_for_principal: unread only or all, after a cursor (0: none), at most limit.
PgDeliveries(target, unread, cursor, limit) ==
    First(Kept(pg.deliveries, {r \in ToSet(pg.deliveries) :
                                  r.target = target /\ (unread => ~r.acked) /\ r.id > cursor}), limit)
MemoryDeliveries(target, unread, cursor, limit) ==
    LET Take[i \in 0 .. Len(mem.deliveries)] ==
            IF i = 0 THEN <<>>
            ELSE LET r == mem.deliveries[i]
                 IN  IF \/ Len(Take[i - 1]) >= limit
                        \/ r.target # target
                        \/ unread /\ r.acked
                        \/ r.id <= cursor
                     THEN Take[i - 1] ELSE Append(Take[i - 1], r)
    IN  Take[Len(mem.deliveries)]

DeliveryStep == store = "deliveries" /\ (CreateDelivery \/ Acknowledge)

PairsNext == DispatchStep \/ PrincipalStep \/ ConsumerStep \/ DeliveryStep

PairsSpec == PairsInit /\ [][PairsNext]_pairVars

-----------------------------------------------------------------------------
(* Properties.                                                             *)

\* The two dispatch backends hand out the same entries, each at most once, and
\* list the same sources, subscriptions, actions and completions of what exists;
\* pending_count in memory exceeds the other by exactly the entries claimed and
\* not confirmed, of which a failed flush leaves its own for good.
DispatchStoresAgree ==
    store = "dispatch" =>
        /\ answer.pg = answer.mem
        /\ pg.sources = mem.sources
        /\ \A enabled \in BOOLEAN, owners \in SUBSET Owners :
               PgSubscriptions(enabled, owners) = MemorySubscriptions(enabled, owners)
        /\ \A s \in Ids(pg.subs) : PgActions(s) = MemoryActions(s)
        /\ \A a \in ToSet(pg.actions) :
               /\ \A event \in Events : (<<event, a.id>> \in pg.completions) =
                                            (<<event, a.id>> \in mem.completions)
               /\ MemoryPending(a.id) = PgPending(a.id) + Cardinality(
                      {e \in ToSet(mem.buffer) : e.action = a.id /\ e.id \in mem.claimed})

\* The two principal stores give the same answers and hold the same rows: a
\* retried mint returns the same id, and a sweep takes the same principals.
PrincipalStoresAgree ==
    store = "principals" => answer.pg = answer.mem /\ pg.principals = mem.principals

\* A credential found by its hash in memory is one PostgreSQL may return, and is
\* found whenever PostgreSQL finds one; lists and the disabled flag agree.
AuthStoresAgree ==
    store = "consumers" =>
        /\ \A hash \in Digests : /\ MemoryByHash(hash) \subseteq PgByHash(hash)
                                /\ PgByHash(hash) # {} => MemoryByHash(hash) # {}
        /\ \A c \in Ids(pg.consumers), types \in SUBSET {"bearer", "hmac"} :
               PgOfConsumer(c, types) = MemoryOfConsumer(c, types)
        /\ pg.consumers = mem.consumers

\* The two delivery stores list the same page for every cursor and limit, and
\* refuse the same acknowledgements; following the cursor misses nothing.
DeliveryStoresAgree ==
    store = "deliveries" =>
        /\ answer.pg = answer.mem
        /\ \A target \in Owners, unread \in BOOLEAN, cursor \in 0 .. stored, limit \in 1 .. MaxStored :
               LET page == PgDeliveries(target, unread, cursor, limit)
               IN  /\ page = MemoryDeliveries(target, unread, cursor, limit)
                   /\ page # <<>> =>
                          page \o PgDeliveries(target, unread, Last(page).id, MaxStored)
                              = PgDeliveries(target, unread, cursor, MaxStored)

\* A caller cannot tell the in-memory stores from those on PostgreSQL, as far as
\* each pair's own property says.
StoresAgree ==
    /\ DispatchStoresAgree /\ PrincipalStoresAgree
    /\ AuthStoresAgree /\ DeliveryStoresAgree
=============================================================================
