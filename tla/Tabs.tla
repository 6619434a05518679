-------------------------------- MODULE Tabs --------------------------------
(***************************************************************************)
(* Tabs, quitting and downloads: src/main.c.                               *)
(*                                                                         *)
(* A tab is a Client in the list vb.clients and a page of the notebook.    *)
(* Tabs are numbered in the order in which vb_tab_new creates them.  New   *)
(* clients are put in front of the list and new pages behind the others,   *)
(* so the order of both follows from the numbers and sets are enough.      *)
(*                                                                         *)
(* Commands run on a stack of frames: a key, an autocommand or a callback  *)
(* holds the pointer of its client until it returns, and while it waits    *)
(* for an answer of the web process it runs the main loop                  *)
(* (ext_proxy_eval_script_sync), which dispatches every other event.       *)
(***************************************************************************)
EXTENDS Naturals, Sequences, FiniteSets

CONSTANTS MaxTabs,      \* bound: tabs created in a session
          MaxRequests,  \* bound: calls of vb_quit and vb_quit_all
          MaxDownloads, \* bound: downloads at a time
          MaxStack      \* bound: nested frames

ASSUME BoundsAssumption ==
    /\ MaxTabs \in Nat \ {0}
    /\ MaxRequests \in Nat
    /\ MaxDownloads \in Nat
    /\ MaxStack \in Nat

VARIABLES
    clients,    \* vb.clients
    pages,      \* the pages of vb.notebook
    current,    \* its current page
    observers,  \* clients whose on_textbuffer_changed is connected to the buffer
    created,    \* number of tabs created so far
    downloads,  \* what has become of every download, and the client it got
    idle,       \* quit() sources that wait for the main loop to be idle
    requests,   \* number of quit requests so far
    running,    \* stack of frames, innermost last
    ended,      \* the main window is destroyed
    stale       \* the kinds of frames and callbacks that used a freed client

vars == <<clients, pages, current, observers, created, downloads, idle,
          requests, running, ended, stale>>

-----------------------------------------------------------------------------
Tab == 1 .. MaxTabs

Download == 1 .. MaxDownloads

\* What a frame does with its client after the commands it runs, and the
\* download it does it for (0 in a command).
Ending == {"respond", "append", "remove"}
Frame == [tab : Tab, then : Ending, load : 0 .. MaxDownloads, waits : BOOLEAN]

\* force is not kept by the code: vb_quit passes only the client to quit().
Request == [time : 1 .. MaxRequests, tab : Tab, force : BOOLEAN]

Top == running[Len(running)]

\* The main loop dispatches events: no handler runs, or the innermost waits.
InMainLoop == ~ended /\ (running # <<>> => Top.waits)

\* The innermost handler runs commands for its client, which is alive.
Runs(t) == running # <<>> /\ ~Top.waits /\ Top.tab = t /\ t \in clients

Push(t, then, d) ==
    /\ Len(running) < MaxStack
    /\ running' = Append(running, [tab |-> t, then |-> then, load |-> d,
                                  waits |-> FALSE])

\* What becomes of a download.  Its autocommands run ("starts"), and it may
\* end meanwhile ("over"): nothing is connected to it yet.  Then it is on
\* state.downloads of its client ("listed"), to the end of the handler that
\* finishes it ("finishing"), or for good if it was over before ("stuck").
\* Or it only waits for its response ("external"), or its handlers are
\* connected to a client that its autocommands closed ("loose").
OnList == {"listed", "finishing", "stuck"}
Stage == OnList \cup {"none", "starts", "over", "external", "loose"}

NoDownload == [tab |-> 1, at |-> "none"]

\* state.downloads of a client is not empty.
Loads(t) == \E d \in Download : downloads[d].tab = t /\ downloads[d].at \in OnList

Busy == {t \in clients : Loads(t)}

-----------------------------------------------------------------------------
(* The notebook and the tabs.                                              *)

\* The page the notebook shows instead of page t: the next, else the previous.
IsNeighbour(n, t) ==
    \/ n > t /\ \A p \in pages : p > t => n <= p
    \/ n < t /\ \A p \in pages : p <= t /\ (p < t => p <= n)

\* on_notebook_switch_page: the input buffer is observed by the new page's
\* client and no longer by any client in the list.
SwitchPage(t) ==
    /\ current' = t
    /\ observers' = IF t = current THEN observers
                                   ELSE (observers \ clients) \cup {t}

\* Mutant: the client is unlinked before the notebook switches the page.
MutantUnlinkFirst(t) ==
    IF Loads(t)
    THEN UNCHANGED <<clients, pages, current, observers, ended>>
    ELSE /\ pages' = pages \ {t}
         /\ clients' = clients \ {t}
         /\ ended' = (pages' = {})
         /\ IF t = current /\ pages' # {}
            THEN \E n \in pages' : /\ IsNeighbour(n, t)
                                   /\ current' = n
                                   /\ observers' = (observers \ clients') \cup {n}
            ELSE UNCHANGED <<current, observers>>

\* Mutant: the program ends when one page is left.
MutantOnePageLeft(t) ==
    IF Loads(t)
    THEN UNCHANGED <<clients, pages, current, observers, ended>>
    ELSE /\ pages' = pages \ {t}
         /\ clients' = clients \ {t}
         /\ ended' = (Cardinality(pages') <= 1)
         /\ IF t = current /\ pages' # {}
            THEN \E n \in pages' : IsNeighbour(n, t) /\ SwitchPage(n)
            ELSE UNCHANGED <<current, observers>>

\* Mutant: the notebook is told to show the page before the closed one.
MutantPageBefore(t) ==
    IF Loads(t)
    THEN UNCHANGED <<clients, pages, current, observers, ended>>
    ELSE /\ pages' = pages \ {t}
         /\ clients' = clients \ {t}
         /\ ended' = (pages' = {})
         /\ IF t = current /\ pages' # {}
            THEN SwitchPage(t - 1)
            ELSE UNCHANGED <<current, observers>>

\* Mutant: vb_tab_close trusts the check of vb_quit.
MutantNoRecheck(t) ==
    /\ pages' = pages \ {t}
    /\ clients' = clients \ {t}
    /\ ended' = (pages' = {})
    /\ IF t = current /\ pages' # {}
            THEN \E n \in pages' : IsNeighbour(n, t) /\ SwitchPage(n)
            ELSE UNCHANGED <<current, observers>>

\* vb_tab_close: refused with running downloads.  The notebook switches the
\* page while the client is still in the list.
TabClose(t) ==
    IF Loads(t)
    THEN UNCHANGED <<clients, pages, current, observers, ended>>
    ELSE /\ pages' = pages \ {t}
         /\ clients' = clients \ {t}
         /\ ended' = (pages' = {})
         /\ IF t = current /\ pages' # {}
            THEN \E n \in pages' : IsNeighbour(n, t) /\ SwitchPage(n)
            ELSE UNCHANGED <<current, observers>>

\* vb_tab_new: from :tabopen, from a navigation, or for window.open.
TabNew ==
    /\ created < MaxTabs
    /\ ~InMainLoop => \E t \in clients : Runs(t)
    /\ created' = created + 1
    /\ clients' = clients \cup {created'}
    /\ pages' = pages \cup {created'}
    /\ SwitchPage(created')
    /\ UNCHANGED <<downloads, idle, requests, running, ended, stale>>

\* gt, gT, g0, g$, :tabnext ... and a click on a tab's label.
GotoTab(t) ==
    /\ ~InMainLoop => \E c \in clients : Runs(c)
    /\ t \in pages
    /\ SwitchPage(t)
    /\ UNCHANGED <<clients, pages, created, downloads, idle, requests, running,
                   ended, stale>>

\* :tabclose closes the tab of the running command at once.
TabCloseCommand(t) ==
    /\ Runs(t)
    /\ TabClose(t)
    /\ UNCHANGED <<created, downloads, idle, requests, running, stale>>

\* The page calls window.close().
WebviewClose(t) ==
    /\ InMainLoop
    /\ t \in clients
    /\ TabClose(t)
    /\ UNCHANGED <<created, downloads, idle, requests, running, stale>>

-----------------------------------------------------------------------------
(* Quitting.                                                               *)

\* vb_quit: :quit, :quit! and CTRL-Q.  quit() runs when the loop is idle.
Quit(t, force) ==
    /\ Runs(t)
    /\ requests < MaxRequests
    /\ force \/ ~Loads(t)
    /\ requests' = requests + 1
    /\ idle' = idle \cup {[time |-> requests', tab |-> t, force |-> force]}
    /\ UNCHANGED <<clients, pages, current, observers, created, downloads,
                   running, ended, stale>>

\* vb_quit_all: one source per client, the oldest first.
QuitAll(force) ==
    /\ \E t \in clients : Runs(t)
    /\ requests < MaxRequests
    /\ force \/ Busy = {}
    /\ requests' = requests + 1
    /\ idle' = idle \cup {[time |-> requests', tab |-> t, force |-> force] :
                             t \in clients}
    /\ UNCHANGED <<clients, pages, current, observers, created, downloads,
                   running, ended, stale>>

\* The source that was added first.
First(q) == \A p \in idle : \/ p.time > q.time
                            \/ p.time = q.time /\ p.tab >= q.tab

\* Mutant: a refused or closed tab ends the idle round: the other sources are dropped.
MutantDropSources ==
    /\ InMainLoop
    /\ \E q \in idle :
        /\ First(q)
        /\ idle' = {p \in idle : p.time # q.time}
        /\ IF q.tab \in clients
           THEN TabClose(q.tab) /\ UNCHANGED stale
           ELSE /\ stale' = stale \cup {"quit"}
                /\ UNCHANGED <<clients, pages, current, observers, ended>>
    /\ UNCHANGED <<created, downloads, requests, running>>

\* quit(): the client it was given may have been closed by another request.
IdleQuit ==
    /\ InMainLoop
    /\ \E q \in idle :
        /\ First(q)
        /\ idle' = idle \ {q}
        /\ IF q.tab \in clients
           THEN TabClose(q.tab) /\ UNCHANGED stale
           ELSE /\ stale' = stale \cup {"quit"}
                /\ UNCHANGED <<clients, pages, current, observers, ended>>
    /\ UNCHANGED <<created, downloads, requests, running>>

\* The window manager closes the window: refused while any download runs.
WindowClose ==
    /\ InMainLoop
    /\ Busy = {}
    /\ clients' = {}
    /\ pages' = {}
    /\ ended' = TRUE
    /\ UNCHANGED <<current, observers, created, downloads, idle, requests,
                   running, stale>>

-----------------------------------------------------------------------------
(* Handlers and downloads.                                                 *)

\* A key of the current tab or an autocommand of any tab starts a command.
Command(t) ==
    /\ InMainLoop
    /\ t \in clients
    /\ Push(t, "respond", 0)
    /\ UNCHANGED <<clients, pages, current, observers, created, downloads, idle,
                   requests, ended, stale>>

\* The tab a download belongs to: that of its web view, else the first client.
IsOwner(c, t) == IF t \in clients THEN c = t ELSE \A d \in clients : d <= c

Free(d) == downloads[d].at = "none" /\ \A e \in Download : e < d => downloads[e].at # "none"

\* on_webctx_download_started runs the autocommands before it connects and
\* counts the download; t is the tab whose web view started it.
DownloadStarted(t) ==
    /\ InMainLoop
    /\ \E c \in clients, d \in Download :
        /\ IsOwner(c, t)
        /\ Free(d)
        /\ Push(c, "append", d)
        /\ downloads' = [downloads EXCEPT ![d] = [tab |-> c, at |-> "starts"]]
    /\ UNCHANGED <<clients, pages, current, observers, created, idle, requests,
                   ended, stale>>

\* The download ends while its autocommands wait: nobody hears of it.
DownloadEndsUnheard(d) ==
    /\ InMainLoop
    /\ downloads[d].at = "starts"
    /\ downloads' = [downloads EXCEPT ![d].at = "over"]
    /\ UNCHANGED <<clients, pages, current, observers, created, idle, requests,
                   running, ended, stale>>

\* Mutant: the download is taken off the list before its autocommands run.
MutantRemoveFirst(d) ==
    /\ InMainLoop
    /\ downloads[d].at \in {"listed", "loose"}
    /\ downloads' = [downloads EXCEPT ![d] = NoDownload]
    /\ IF downloads[d].tab \in clients
       THEN Push(downloads[d].tab, "remove", d) /\ UNCHANGED stale
       ELSE stale' = stale \cup {"finished"} /\ UNCHANGED running
    /\ UNCHANGED <<clients, pages, current, observers, created, idle, requests,
                   ended>>

\* on_webdownload_finished, also after a failure: its autocommands run for the
\* client it was connected to, which may be freed.
DownloadFinished(d) ==
    /\ InMainLoop
    /\ downloads[d].at \in {"listed", "loose"}
    /\ IF downloads[d].tab \in clients
       THEN /\ Push(downloads[d].tab, "remove", d)
            /\ downloads' = [downloads EXCEPT ![d].at = "finishing"]
            /\ UNCHANGED stale
       ELSE /\ downloads' = [downloads EXCEPT ![d] = NoDownload]
            /\ stale' = stale \cup {"finished"}
            /\ UNCHANGED running
    /\ UNCHANGED <<clients, pages, current, observers, created, idle, requests,
                   ended>>

\* on_webdownload_response_received: the external tool is spawned for the
\* client it was connected to, and the download is cancelled.
DownloadResponse(d) ==
    /\ InMainLoop
    /\ downloads[d].at = "external"
    /\ downloads' = [downloads EXCEPT ![d] = NoDownload]
    /\ stale' = IF downloads[d].tab \in clients THEN stale
                                                ELSE stale \cup {"response"}
    /\ UNCHANGED <<clients, pages, current, observers, created, idle, requests,
                   running, ended>>

\* The innermost handler asks the web process, and gets the answer.
Wait ==
    /\ running # <<>> /\ ~Top.waits /\ ~ended
    /\ running' = [running EXCEPT ![Len(running)].waits = TRUE]
    /\ UNCHANGED <<clients, pages, current, observers, created, downloads, idle,
                   requests, ended, stale>>

Answer ==
    /\ running # <<>> /\ Top.waits
    /\ running' = [running EXCEPT ![Len(running)].waits = FALSE]
    /\ UNCHANGED <<clients, pages, current, observers, created, downloads, idle,
                   requests, ended, stale>>

\* The end of on_webctx_download_started: the handlers are connected to the
\* client, also when the autocommands freed it, and with download-use-external
\* the download is not on its list.  One that is over is never finished.
Connect(d) ==
    \E external \in BOOLEAN :
        LET over == downloads[d].at = "over"
            at == CASE external -> "external"
                    [] ~external /\ downloads[d].tab \notin clients -> "loose"
                    [] ~external /\ downloads[d].tab \in clients ->
                           IF over THEN "stuck" ELSE "listed"
        IN  downloads' = [downloads EXCEPT ![d] =
                IF over /\ at # "stuck" THEN NoDownload ELSE [@ EXCEPT !.at = at]]

\* The commands are done; the rest of the handler uses its client.
Return ==
    /\ running # <<>> /\ ~Top.waits
    /\ running' = SubSeq(running, 1, Len(running) - 1)
    /\ stale' = IF Top.tab \in clients THEN stale ELSE stale \cup {Top.then}
    /\ \/ Top.then = "respond" /\ UNCHANGED downloads
       \/ Top.then = "append" /\ Connect(Top.load)
       \/ /\ Top.then = "remove"
          /\ downloads' = [downloads EXCEPT ![Top.load] = NoDownload]
    /\ UNCHANGED <<clients, pages, current, observers, created, idle, requests,
                   ended>>

-----------------------------------------------------------------------------
\* main() opens the first tab.
Init ==
    /\ clients = {1} /\ pages = {1} /\ current = 1 /\ observers = {1}
    /\ created = 1
    /\ downloads = [d \in Download |-> NoDownload]
    /\ idle = {} /\ requests = 0
    /\ running = <<>>
    /\ ended = FALSE
    /\ stale = {}

Next ==
    \/ TabNew
    \/ \E t \in Tab : GotoTab(t)
    \/ \E t \in Tab : TabCloseCommand(t)
    \/ \E t \in Tab : WebviewClose(t)
    \/ \E t \in Tab, force \in BOOLEAN : Quit(t, force)
    \/ \E force \in BOOLEAN : QuitAll(force)
    \/ IdleQuit
    \/ WindowClose
    \/ \E t \in Tab : Command(t)
    \/ \E t \in Tab : DownloadStarted(t)
    \/ \E d \in Download : DownloadEndsUnheard(d)
    \/ \E d \in Download : DownloadFinished(d)
    \/ \E d \in Download : DownloadResponse(d)
    \/ Wait
    \/ Answer
    \/ Return

Spec == Init /\ [][Next]_vars

\* Handlers return, the web process answers, and the main loop is idle again
\* and again: keys and page events come with pauses.
Fairness == WF_vars(Return) /\ WF_vars(Answer) /\ SF_vars(IdleQuit)

FairSpec == Spec /\ Fairness

-----------------------------------------------------------------------------
(* Properties.                                                             *)

TypeOK ==
    /\ clients \subseteq Tab /\ pages \subseteq Tab /\ observers \subseteq Tab
    /\ current \in Tab
    /\ created \in Tab
    /\ downloads \in [Download -> [tab : Tab, at : Stage]]
    /\ idle \subseteq Request
    /\ requests \in 0 .. MaxRequests
    /\ running \in Seq(Frame)
    /\ ended \in BOOLEAN
    /\ stale \subseteq Ending \cup {"quit", "finished", "response"}

\* The client list and the notebook agree after every way to open and close a
\* tab, no tab that was not created is in either, and the program ends with
\* its last tab and not before: a client without a page would get no keys and
\* keep the browser from ending.
PagesAreClients ==
    /\ pages = clients
    /\ \A t \in clients : t <= created
    /\ ended <=> pages = {}

\* While there is a page, the shared input buffer is observed by the client of
\* the shown page alone: typing a command never reaches another tab's
\* completion, hints or search (on_notebook_switch_page, vb_tab_close).
InputFollowsPage ==
    pages # {} => current \in pages /\ observers = {current}

\* A download that is on its client's list keeps the client, whatever is
\* closed, by whom and in which order, to the end of on_webdownload_finished,
\* also when the autocommands of that handler ask to close the tab.  A handler
\* meets a freed client only if on_webctx_download_started connected it to one
\* (main.c:1396), which takes a close during the DownloadStarted autocommands.
\* The response of an external download is not promised anything: see
\* DownloadsFindClients.
DownloadsKeepTabs ==
    /\ \A d \in Download : downloads[d].at \in OnList => downloads[d].tab \in clients
    /\ "remove" \notin stale
    /\ ("finished" \in stale \/ \E d \in Download : downloads[d].at = "loose")
         => "append" \in stale

\* An accepted request closes its tab unless a download of the tab runs.
QuitHappens ==
    \A t \in Tab :
        (\E q \in idle : q.tab = t) ~> (t \notin clients \/ Loads(t))

-----------------------------------------------------------------------------
(* What the manual or a comment says and the code does not keep.           *)

\* doc/vimb.1 says of :quit! "Close the current tab independent from a running
\* download": a forced request closes its tab.  quit() does not know that it
\* was forced and vb_tab_close refuses.
ForcedQuitCloses ==
    \A t \in Tab :
        (\E q \in idle : q.tab = t /\ q.force) ~> (t \notin clients)

\* quit() says "Check if client is still valid": the client of an idle request
\* is one of vb.clients.  Two requests for one tab, or window.close() before
\* the loop is idle, leave a source with a freed client.
QuitIsValid == "quit" \notin stale

\* vb_quit says "Don't run the quit synchronously, because this could lead to
\* access of no more existing widget where some command response is written":
\* the client of a command is there until the command has responded.
\* :tabclose frees it under the command.
CommandKeepsClient == "respond" \notin stale

\* vb_tab_close says "Can't close tab: there are running downloads": whatever is
\* called back for a download finds its client.  A tab may be closed while the
\* DownloadStarted autocommands run, and under an external download.
DownloadsFindClients == stale \cap {"append", "finished", "response"} = {}

\* doc/vimb.1 says of :quit that "the command will be refused if there are
\* running downloads": a download that is over refuses nothing.  One that ends
\* while its DownloadStarted autocommands wait is put on the list afterwards,
\* and nothing takes it off again.
OverIsOff == \A d \in Download : downloads[d].at # "stuck"

=============================================================================
