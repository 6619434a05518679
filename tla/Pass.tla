-------------------------------- MODULE Pass --------------------------------
(***************************************************************************)
(* The password manager: src/pass-ui.c over PassStore, with the pages that *)
(* src/scripts/pass-detector.js and pass-detector-hooks.js watch.          *)
(*                                                                         *)
(* A page asks when it finds a form, and again when the form is submitted; *)
(* its promises are numbered from 0 in every page.  The user answers the   *)
(* save prompt (mode 'P'), fills a page with :pass-fill, choosing in the   *)
(* picker (mode 'F') if there are several records, and forgets records     *)
(* with :pass-forget.  A tab is the address of a Client: a new tab may get *)
(* the address of a closed one.                                            *)
(*                                                                         *)
(* Left out: the fields of the page that are filled, messages other than   *)
(* the prompt, the generator and the menu of the detector, which the hooks *)
(* replace by stubs, and passwordManagerSave, which is not sent as long as *)
(* the hooks permit nothing.  A message of the page arrives at once.       *)
(***************************************************************************)
EXTENDS PassStore

CONSTANTS
    Tab,         \* the addresses of clients
    HasUser,     \* the hosts whose form has a field for the user name
    MaxTasks,    \* bound: tasks at a time
    MaxEvents    \* bound: pages, forms, commands and closed tabs

ASSUME PassAssumption ==
    /\ HasUser \subseteq Host
    /\ MaxTasks \in Nat /\ MaxEvents \in Nat

VARIABLES
    enabled,  \* the setting pass-enabled
    open,     \* vb.clients
    mode,     \* c->mode->id: "P", "F", or "n" for the others
    pending,  \* pending: at most one save of every client
    asked,    \* the save that the prompt of a client names
    deny,     \* deny_set
    fill,     \* fill_ctx: at most one picker
    page,     \* the page of every tab and its promises
    wanted,   \* what the pages of the open tabs asked to save (history)
    events    \* those so far

uiVars == <<enabled, open, mode, pending, asked, deny, fill, page, wanted, events>>
vars == <<storeVars, uiVars>>

-----------------------------------------------------------------------------
Request == [host : Host, body : Body, isNew : BOOLEAN]

\* why: prefilling a form, prefilling it whatever the fields are called, or
\* submitting it with a user and a password.  sent: the handler took the query.
Promise == [id : Nat, why : {"fill", "retry", "submit"}, user : Name,
            secret : Secret \cup {Absent}, sent : BOOLEAN]
NewPage(h, f) == [host |-> h, field |-> f, promises |-> {}, next |-> 0,
                  scanned |-> FALSE, submitted |-> FALSE]

Event == events < MaxEvents /\ events' = events + 1

\* vb_enter; entering 'P' prints the prompt, unless the client is in it.
Mode(t, m) == mode' = [mode EXCEPT ![t] = m]

\* PreFill.query: a promise with the next id and, if the handler takes the
\* message, a task.  ts are the tasks without those that called back.
Ask(ts, t, p, why, user, secret, field) ==
    /\ page' = [page EXCEPT ![t] =
          [p EXCEPT !.next = @ + 1,
                    !.promises = @ \cup {[id |-> p.next, why |-> why, user |-> user,
                                          secret |-> secret, sent |-> enabled]}]]
    /\ tasks' = IF enabled
                THEN Append(ts, Query(p.host, IF user = NoUser THEN Wildcard ELSE user,
                                      field, [tab |-> t, id |-> p.next]))
                ELSE ts

-----------------------------------------------------------------------------
(* The save prompt.                                                        *)

\* Mutant: one pending save for all clients.
MutantOnePending(t, r) ==
    IF r.host \in deny \/ ~enabled
    THEN UNCHANGED <<pending, asked, mode, wanted>>
    ELSE /\ pending' = [u \in Tab |-> {r}]
         /\ asked' = IF mode[t] = "P" THEN asked ELSE [asked EXCEPT ![t] = {r}]
         /\ Mode(t, "P")
         /\ wanted' = [wanted EXCEPT ![t] = @ \cup {r}]

\* Mutant: a save is added to what is pending.
MutantKeepBoth(t, r) ==
    IF r.host \in deny \/ ~enabled
    THEN UNCHANGED <<pending, asked, mode, wanted>>
    ELSE /\ pending' = [pending EXCEPT ![t] = @ \cup {r}]
         /\ asked' = IF mode[t] = "P" THEN asked ELSE [asked EXCEPT ![t] = {r}]
         /\ Mode(t, "P")
         /\ wanted' = [wanted EXCEPT ![t] = @ \cup {r}]

\* on_pass_request_save and pass_prompt_enter.
RequestSave(t, r) ==
    IF r.host \in deny \/ ~enabled
    THEN UNCHANGED <<pending, asked, mode, wanted>>
    ELSE /\ pending' = [pending EXCEPT ![t] = {r}]
         /\ asked' = IF mode[t] = "P" THEN asked ELSE [asked EXCEPT ![t] = {r}]
         /\ Mode(t, "P")
         /\ wanted' = [wanted EXCEPT ![t] = @ \cup {r}]

\* pass_prompt_keypress for a key other than <Esc>, y and n, which does nothing,
\* is left out.
PromptKey(t, k) ==
    /\ t \in open /\ mode[t] = "P"
    /\ \E r \in pending[t] :
          /\ IF k = "y" THEN Save(r.host, r.body) ELSE UNCHANGED <<store, cache>>
          /\ deny' = IF k = "n" THEN deny \cup {r.host} ELSE deny
    /\ pending' = [pending EXCEPT ![t] = {}]
    /\ Mode(t, "n")
    /\ UNCHANGED <<tasks, enabled, open, asked, fill, page, wanted, events>>

-----------------------------------------------------------------------------
(* The page.                                                               *)

\* A new page; its promises are numbered anew.
Load(t, h, f) ==
    /\ Event
    /\ t \in open
    /\ page' = [page EXCEPT ![t] = NewPage(h, f)]
    /\ UNCHANGED <<storeVars, enabled, open, mode, pending, asked, deny, fill, wanted>>

\* initialScan and preFillForms.  The names are asked for first, and answered
\* without a task; without an answer nothing follows.
Scan(t) ==
    /\ Event
    /\ t \in open /\ ~page[t].scanned
    /\ Len(tasks) < MaxTasks
    /\ LET p == [page[t] EXCEPT !.scanned = TRUE]
           q == [p EXCEPT !.next = @ + 1]
           names == Usernames(p.host)
           only == {n \in names : names = {n}}
       IN IF p.host \in HasUser
          THEN IF enabled
               THEN \E user \in IF only # {} THEN only ELSE {NoUser} :
                        Ask(tasks, t, q, "fill", user, Absent, p.field)
               ELSE page' = [page EXCEPT ![t] = q] /\ UNCHANGED tasks
          ELSE Ask(tasks, t, p, "fill", NoUser, Absent, p.field)
    /\ UNCHANGED <<store, cache, enabled, open, mode, pending, asked, deny, fill,
                   wanted>>

\* handleFormSubmission, once for every form.
Submit(t, user, secret) ==
    /\ Event
    /\ t \in open /\ ~page[t].submitted
    /\ Len(tasks) < MaxTasks
    /\ page[t].host \notin HasUser => user = NoUser
    /\ Ask(tasks, t, [page[t] EXCEPT !.submitted = TRUE], "submit", user, secret,
           page[t].field)
    /\ UNCHANGED <<store, cache, enabled, open, mode, pending, asked, deny, fill,
                   wanted>>

\* handleFormSubmission: no user name is null in the form, but '' in the answer.
Known(pr, ans) == /\ ans # Absent
                  /\ ans.name = pr.user /\ pr.user # NoUser
                  /\ ans.secret = pr.secret

\* onQueryResponse: the promise takes the answer, a body or Absent.  preFill
\* asks again without the fields; a submission asks to save what is not stored.
Resolve(ts, t, pr, ans) ==
    LET p == [page[t] EXCEPT !.promises = @ \ {pr}] IN
    /\ IF pr.why = "fill" /\ ans = Absent
       THEN Ask(ts, t, p, "retry", pr.user, Absent, Wildcard)
       ELSE page' = [page EXCEPT ![t] = p] /\ tasks' = ts
    /\ IF pr.why = "submit" /\ ~Known(pr, ans)
       THEN RequestSave(t, [host |-> p.host, isNew |-> ans = Absent,
                            body |-> [name |-> pr.user, field |-> p.field,
                                      secret |-> pr.secret]])
       ELSE UNCHANGED <<pending, asked, mode, wanted>>

\* Mutant: a query that found nothing is not answered.
MutantNoNullReply(i) ==
    LET q == tasks[i] IN
    /\ q.kind = "query" /\ Finished(q) /\ "id" \in DOMAIN q.for
    /\ LET t == q.for.tab
           prs == {pr \in page[t].promises : pr.id = q.for.id}
       IN IF t \in open /\ prs # {} /\ q.records # <<>>
          THEN \E pr \in prs : Resolve(RemoveAt(tasks, i), t, pr, q.records[1].body)
          ELSE /\ tasks' = RemoveAt(tasks, i)
               /\ UNCHANGED <<page, pending, asked, mode, wanted>>
    /\ UNCHANGED <<store, cache, enabled, open, deny, fill, events>>

\* on_query_password_records: the address is looked for in vb.clients, and the
\* page looks for a promise with that id.
Reply(i) ==
    LET q == tasks[i] IN
    /\ q.kind = "query" /\ Finished(q) /\ "id" \in DOMAIN q.for
    /\ LET t == q.for.tab
           prs == {pr \in page[t].promises : pr.id = q.for.id}
           ans == IF q.records = <<>> THEN Absent ELSE q.records[1].body
       IN IF t \in open /\ prs # {}
          THEN \E pr \in prs : Resolve(RemoveAt(tasks, i), t, pr, ans)
          ELSE /\ tasks' = RemoveAt(tasks, i)
               /\ UNCHANGED <<page, pending, asked, mode, wanted>>
    /\ UNCHANGED <<store, cache, enabled, open, deny, fill, events>>

-----------------------------------------------------------------------------
(* :pass-fill and the picker.                                              *)

\* fill_picker_build_widgets shows the name of a record, "(no-user)" for none.
Rows(c) == {i \in DOMAIN c.records :
               c.needle # Wildcard => c.records[i].body.name = c.needle}

\* vb_pass_ui_fill, with or without a user name behind the host.
FillCommand(t, h, user) ==
    /\ Event
    /\ t \in open /\ mode[t] = "n" /\ Len(tasks) < MaxTasks
    /\ tasks' = Append(tasks, Query(h, user, Wildcard, [tab |-> t]))
    /\ UNCHANGED <<store, cache, enabled, open, mode, pending, asked, deny, fill,
                   page, wanted>>

\* on_fill_records.  The list is built on entering the mode, which does not
\* happen when the client is in it.
Records(i) ==
    LET q == tasks[i]
        t == q.for.tab
    IN /\ q.kind = "query" /\ Finished(q) /\ "id" \notin DOMAIN q.for
       /\ IF t \in open /\ Len(q.records) > 1
          THEN /\ fill' = {[tab |-> t, records |-> q.records, built |-> mode[t] # "F",
                            needle |-> Wildcard, row |-> 1]}
               /\ Mode(t, "F")
          ELSE UNCHANGED <<fill, mode>>
       /\ tasks' = RemoveAt(tasks, i)
       /\ UNCHANGED <<store, cache, enabled, open, pending, asked, deny, page, wanted,
                      events>>

\* fill_picker_keypress, in a picker that is another client's or without a list
\* too: <Esc> and <CR> leave it, <Up> and <Down> go around the rows.
PickerKey(t, k) ==
    /\ t \in open /\ mode[t] = "F"
    /\ LET mine == {c \in fill : c.tab = t} IN
       IF mine = {} THEN Mode(t, "n") /\ UNCHANGED fill
       ELSE \E c \in mine :
            CASE k = "leave" -> Mode(t, "n") /\ fill' = {}
              [] k = "move" -> /\ IF c.built /\ Rows(c) # {}
                                  THEN \E i \in Rows(c) : fill' = {[c EXCEPT !.row = i]}
                                  ELSE UNCHANGED fill
                               /\ UNCHANGED mode
    /\ UNCHANGED <<storeVars, enabled, open, pending, asked, deny, page, wanted, events>>

\* fill_picker_input_changed; the selection stays on a row that is shown.
Filter(t, needle) ==
    /\ t \in open /\ mode[t] = "F"
    /\ \E c \in fill :
          /\ c.tab = t /\ c.built
          /\ LET d == [c EXCEPT !.needle = needle] IN
             IF d.row \in Rows(d) \/ Rows(d) = {} THEN fill' = {d}
             ELSE \E i \in Rows(d) : fill' = {[d EXCEPT !.row = i]}
    /\ UNCHANGED <<storeVars, enabled, open, mode, pending, asked, deny, page, wanted,
                   events>>

\* Mutant: the number of the selected row is used as an index of the records.
MutantRowOfAll(c) == Cardinality({j \in Rows(c) : j <= c.row})

\* The record that <CR> fills: the first of the name that the selected row shows.
Picked(c) ==
    CHOOSE i \in DOMAIN c.records :
        /\ c.records[i].body.name = c.records[c.row].body.name
        /\ \A j \in 1..(i - 1) : c.records[j].body.name # c.records[c.row].body.name

-----------------------------------------------------------------------------
(* :pass-forget, the setting, and tabs.                                    *)

\* vb_pass_ui_forget.
ForgetCommand(t, h, n) ==
    /\ Event
    /\ t \in open /\ mode[t] = "n" /\ Len(tasks) < MaxTasks
    /\ tasks' = Append(tasks, Removal(h, n, [tab |-> t]))
    /\ UNCHANGED <<store, cache, enabled, open, mode, pending, asked, deny, fill,
                   page, wanted>>

\* on_forget_done, which prints a message in the tab whether it is open or not.
Forgotten(i) ==
    /\ ForgetFinish(i)
    /\ tasks' = RemoveAt(tasks, i)
    /\ UNCHANGED uiVars

\* vb_pass_ui_set_enabled.
SetEnabled(on) ==
    /\ Event
    /\ enabled' = on
    /\ UNCHANGED <<storeVars, open, mode, pending, asked, deny, fill, page, wanted>>

\* vb_tab_close: what the password manager keeps for the client stays.
Close(t) ==
    /\ Event
    /\ t \in open /\ open # {t}
    /\ open' = open \ {t}
    /\ Mode(t, "n")
    /\ asked' = [asked EXCEPT ![t] = {}]
    /\ wanted' = [wanted EXCEPT ![t] = {}]
    /\ page' = [page EXCEPT ![t] = NewPage(page[t].host, page[t].field)]
    /\ UNCHANGED <<storeVars, enabled, pending, deny, fill>>

\* vb_tab_new, at the address of a client that was freed.
Open(t, h, f) ==
    /\ t \notin open
    /\ open' = open \cup {t}
    /\ page' = [page EXCEPT ![t] = NewPage(h, f)]
    /\ UNCHANGED <<storeVars, enabled, mode, pending, asked, deny, fill, wanted, events>>

-----------------------------------------------------------------------------
Init ==
    /\ StoreInit
    /\ enabled = TRUE
    /\ open = Tab
    /\ mode = [t \in Tab |-> "n"]
    /\ pending = [t \in Tab |-> {}] /\ asked = pending /\ wanted = pending
    /\ deny = {} /\ fill = {}
    /\ \E f \in Field : page \in [Tab -> {NewPage(h, f) : h \in Host}]
    /\ events = 0

\* GTask: a thread works on the task, and its callback runs on the main loop.
Thread == \E i \in DOMAIN tasks : /\ Show(i) \/ RemoveEntry(i)
                                  /\ UNCHANGED uiVars
Callback == \E i \in DOMAIN tasks : Reply(i) \/ Records(i) \/ Forgotten(i)

PageEvent ==
    \E t \in Tab :
        \/ \E h \in Host, f \in Field : Load(t, h, f) \/ Open(t, h, f)
        \/ Scan(t) \/ Close(t)
        \/ \E user \in Name, secret \in Secret : Submit(t, user, secret)

UserEvent ==
    \/ \E t \in Tab :
        \/ \E k \in {"y", "n", "esc"} : PromptKey(t, k)
        \/ \E k \in {"leave", "move"} : PickerKey(t, k)
        \/ \E needle \in Name \cup {Wildcard} : Filter(t, needle)
        \/ \E h \in Host, user \in User \cup {Wildcard} : FillCommand(t, h, user)
        \/ \E h \in Host, n \in Name : ForgetCommand(t, h, n)
    \/ \E on \in BOOLEAN : SetEnabled(on)

Next == Thread \/ Callback \/ PageEvent \/ UserEvent

\* Threads run, and GLib serves the callbacks of finished tasks.
Fairness == WF_vars(Thread) /\ WF_vars(Callback)

Spec == Init /\ [][Next]_vars /\ Fairness

-----------------------------------------------------------------------------
(* Properties.                                                             *)

TypeOK ==
    /\ store \in [Host -> [Name -> Body \cup {Absent}]]
    /\ cache \in [Host -> Seq(Name)]
    /\ \A i \in DOMAIN tasks : /\ tasks[i].kind \in {"query", "forget"}
                               /\ tasks[i].host \in Host /\ tasks[i].for.tab \in Tab
    /\ enabled \in BOOLEAN /\ open \subseteq Tab /\ deny \subseteq Host
    /\ mode \in [Tab -> {"n", "P", "F"}]
    /\ pending \in [Tab -> SUBSET Request] /\ asked \in [Tab -> SUBSET Request]
    /\ wanted \in [Tab -> SUBSET Request]
    /\ \A t \in Tab : /\ page[t].promises \subseteq Promise
                      /\ Cardinality(pending[t]) <= 1
                      /\ page[t].host \in Host /\ page[t].next \in 0..4
    /\ \A c \in fill : c.tab \in Tab /\ c.row \in DOMAIN c.records
    /\ Cardinality(fill) <= 1 /\ events \in 0..MaxEvents

\* What is stored under a key, once there, only changes because the user
\* answered a prompt in a tab whose pages asked to save just that since it was
\* opened, although pending saves outlive their tabs (src/pass-ui.c:46).
SavedIsWanted ==
    [][\A h \in Host, n \in Name :
          store'[h][n] # store[h][n] /\ store'[h][n] # Absent =>
              \E t \in open : /\ mode[t] = "P" /\ mode'[t] = "n"
                              /\ \E r \in wanted[t] : /\ r.host = h
                                                      /\ r.body = store'[h][n]]_vars

\* Only a :pass-forget of its key takes an entry away.
GoneIsForgotten ==
    [][\A h \in Host, n \in Name :
          store[h][n] # Absent /\ store'[h][n] = Absent =>
              \E i \in DOMAIN tasks : /\ tasks[i].kind = "forget"
                                      /\ tasks[i].host = h /\ tasks[i].name = n]_vars

\* What <CR> fills is a row that the filter lets through, of the name that the
\* selected row shows.
PickedIsShown ==
    \A c \in fill : c.built /\ Rows(c) # {} =>
        /\ Picked(c) \in Rows(c)
        /\ c.records[Picked(c)].body.name = c.records[c.row].body.name

\* Promises whose queries were taken are resolved, unless their pages go away:
\* when no more events come, threads end and come back in any order, and a
\* search that found nothing is answered too.
PromisesResolve == <>[](\A t \in Tab : \A p \in page[t].promises : ~p.sent)

\* What is saved is what the user was asked about, what goes is what the user
\* forgot, and what is filled is what the user picked.
UserDecides == SavedIsWanted /\ GoneIsForgotten /\ []PickedIsShown

-----------------------------------------------------------------------------
(* What a comment says and the code does not keep.                         *)

\* src/pass-manager.c:373: "is_new=TRUE means fail-if-exists": a record that was
\* not found when its form was submitted replaces none that another tab put there
\* before the user answers.
NewNeverReplaces ==
    [][\A h \in Host, n \in Name :
          store[h][n] # Absent /\ store'[h][n] \notin {Absent, store[h][n]} =>
              \E t \in open : \E r \in pending[t] :
                  r.host = h /\ r.body = store'[h][n] /\ ~r.isNew]_vars

\* src/pass-ui.c:739: "Duplicates are impossible -- pass hierarchy uses
\* filename-as-username so each row is unique per host."
RowsAreUnique == \A c \in fill : \A i \in DOMAIN c.records : \A j \in DOMAIN c.records :
    c.records[i].body.name = c.records[j].body.name => i = j

\* src/pass-ui.c:378: "stash the record and pop the y/n prompt": the prompt
\* names what y saves.
PromptNamesPending == \A t \in open : mode[t] = "P" => asked[t] = pending[t]

\* src/pass-ui.c:417: the context of a query is "kept alive across the async
\* vb_pass_manager_query call": a promise is resolved by its own query.
AnswersMatch ==
    [][\A i \in DOMAIN tasks : \A t \in Tab :
          tasks[i].kind = "query" /\ tasks[i].for.tab = t /\ "id" \in DOMAIN tasks[i].for
          /\ tasks' = RemoveAt(tasks, i) /\ page'[t] # page[t] => tasks[i].host = page[t].host]_vars
=============================================================================
