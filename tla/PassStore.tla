----------------------------- MODULE PassStore -----------------------------
(***************************************************************************)
(* The model behind the password manager, src/pass-manager.c: a cache of   *)
(* the names that the store of pass(1) holds for every host, and the tasks *)
(* that run pass in threads.                                               *)
(*                                                                         *)
(* Saving runs pass on the main thread.  A query copies the cached names,  *)
(* shows one entry after the other in its thread, and calls back on the    *)
(* main thread; forgetting removes in a thread and refreshes the cache on  *)
(* the main thread.  Other processes leave the store alone.                *)
(***************************************************************************)
EXTENDS Naturals, Sequences, SequencesExt, FiniteSets

CONSTANTS
    Host,      \* the hosts
    User,      \* the user names
    NoUser,    \* no user name; as a name in the store the slug "_"
    Secret,    \* the passwords
    Field,     \* the names a form may have for its fields
    Wildcard,  \* NULL as a filter of a query
    Absent,    \* what the store holds under a key that does not exist
    Existing,  \* the entries at first: <<host, name, name in the entry>>
    PassFails  \* TRUE: any run of pass may fail

Name == User \cup {NoUser}

\* What parse_body makes of an entry.  One that was not made by vimb may have no
\* line with its user name and fields.
Body == [name : Name, field : Field \cup {NoUser}, secret : Secret]

ASSUME PassStoreAssumption ==
    /\ NoUser \notin User \cup Field /\ Wildcard \notin Name \cup Field
    /\ Absent \notin Body
    /\ Existing \subseteq Host \X Name \X Name /\ IsFiniteSet(Existing)
    /\ PassFails \in BOOLEAN

VARIABLES
    store,  \* the entry under websites/<host>/<name>
    cache,  \* self->cache: the names of every host, in directory order
    tasks   \* the GTasks that did not call back yet

storeVars == <<store, cache, tasks>>

-----------------------------------------------------------------------------
(* The store and the cache.                                                *)

Stored(st, h) == {n \in Name : st[h][n] # Absent}

\* refresh_host_cache: the names in the order of the directory, which is any
\* order, but the same as long as the names are.
Listing(st, h) == SetToSeq(Stored(st, h))

\* vb_pass_manager_get_usernames_for_origin without the slug "_", which
\* reply_query_usernames takes out; a set, as their order does not matter and
\* the cache has no name twice (CacheIsStore).
Usernames(h) == ToSet(cache[h]) \ {NoUser}

RefreshCache(h) == cache' = [cache EXCEPT ![h] = Listing(store', h)]

\* vb_pass_manager_save.  The old and the new name are always the same, so
\* that nothing is renamed.  A new record is inserted without -f, which makes no
\* difference: the entry comes through a pipe, and pass(1) asks whether to
\* overwrite only at a terminal.
Save(h, b) ==
    \/ /\ store' = [store EXCEPT ![h][b.name] = b]
       /\ RefreshCache(h)
    \/ /\ PassFails
       /\ UNCHANGED <<store, cache>>

-----------------------------------------------------------------------------
(* Tasks.  What a task calls back to is in `for`.                          *)

\* vb_pass_manager_query.
Query(h, user, field, for) ==
    [kind |-> "query", host |-> h, user |-> user, field |-> field,
     todo |-> cache[h], records |-> <<>>, for |-> for]

\* vb_pass_manager_forget.
Removal(h, n, for) ==
    [kind |-> "forget", host |-> h, name |-> n, result |-> "none", for |-> for]

Matches(q, n, b) == /\ b # Absent
                    /\ q.user # Wildcard => n = q.user /\ n # NoUser
                    /\ q.field # Wildcard => b.field = q.field

\* query_thread: the next name of the snapshot; an entry that is gone, cannot
\* be shown or does not match is passed over.
Show(i) ==
    /\ tasks[i].kind = "query" /\ tasks[i].todo # <<>>
    /\ LET q == tasks[i]
           n == Head(q.todo)
           b == store[q.host][n]
       IN \/ /\ Matches(q, n, b)
             /\ tasks' = [tasks EXCEPT ![i] =
                             [q EXCEPT !.todo = Tail(@),
                                       !.records = Append(@, [key |-> n, body |-> b])]]
          \/ /\ PassFails \/ ~Matches(q, n, b)
             /\ tasks' = [tasks EXCEPT ![i].todo = Tail(@)]
    /\ UNCHANGED <<store, cache>>

\* forget_thread: pass rm -f fails for what does not exist.
RemoveEntry(i) ==
    /\ tasks[i].kind = "forget" /\ tasks[i].result = "none"
    /\ LET f == tasks[i] IN
       \/ /\ store[f.host][f.name] # Absent
          /\ store' = [store EXCEPT ![f.host][f.name] = Absent]
          /\ tasks' = [tasks EXCEPT ![i].result = "removed"]
       \/ /\ PassFails \/ store[f.host][f.name] = Absent
          /\ tasks' = [tasks EXCEPT ![i].result = "failed"]
          /\ UNCHANGED store
    /\ UNCHANGED cache

Finished(x) == IF x.kind = "query" THEN x.todo = <<>> ELSE x.result # "none"

\* Mutant: forgetting leaves the cache as it is.
MutantNoRefresh(i) ==
    /\ tasks[i].kind = "forget" /\ Finished(tasks[i])
    /\ UNCHANGED <<store, cache>>

\* vb_pass_manager_forget_finish.
ForgetFinish(i) ==
    /\ tasks[i].kind = "forget" /\ Finished(tasks[i])
    /\ UNCHANGED store
    /\ IF tasks[i].result = "removed" THEN RefreshCache(tasks[i].host)
                                      ELSE UNCHANGED cache

\* vb_pass_manager_new and warm_cache.
StoreInit ==
    /\ \E secret \in Secret, f \in Field :
           store = [h \in Host |-> [n \in Name |->
               IF \E name \in Name : <<h, n, name>> \in Existing
               THEN LET name == CHOOSE x \in Name : <<h, n, x>> \in Existing IN
                    [name |-> name, secret |-> secret,
                     field |-> IF name = n THEN f ELSE NoUser]
               ELSE Absent]]
    /\ cache = [h \in Host |-> Listing(store, h)]
    /\ tasks = <<>>

-----------------------------------------------------------------------------
\* The cache has the names of the store, except that names stay which a task
\* removed that did not get back to the main thread.  A name that it misses
\* would never be shown to a page, nor found by a query.
CacheIsStore ==
    \A h \in Host :
        /\ Stored(store, h) \subseteq ToSet(cache[h])
        /\ \A n \in ToSet(cache[h]) \ Stored(store, h) :
               \E i \in DOMAIN tasks : /\ tasks[i].kind = "forget"
                                       /\ tasks[i].host = h /\ tasks[i].name = n
                                       /\ tasks[i].result = "removed"
        /\ IsInjective(cache[h])
=============================================================================
