---------------------------- MODULE Tabs_proofs ----------------------------
(***************************************************************************)
(* What holds of Tabs for every number of tabs, requests, downloads and    *)
(* nested handlers.                                                        *)
(***************************************************************************)
EXTENDS Tabs, SequenceTheorems, TLAPS

Load == [tab : Tab, at : Stage]

\* The handler of frame f works on a download that is at this handler's stage
\* and belongs to its client; dl are the downloads.
Fits(f, dl) ==
    \/ f.then = "respond" /\ f.load = 0
    \/ /\ f.then = "append" /\ f.load \in Download
       /\ dl[f.load].tab = f.tab /\ dl[f.load].at \in {"starts", "over"}
    \/ /\ f.then = "remove" /\ f.load \in Download
       /\ dl[f.load].tab = f.tab /\ dl[f.load].at = "finishing"

\* Every handler in progress fits its download, and none has two of them.
Matches(s, dl) ==
    /\ \A i \in 1 .. Len(s) : Fits(s[i], dl)
    /\ \A i, j \in 1 .. Len(s) : s[i].load = s[j].load /\ i # j => s[i].load = 0

HandlersMatch == Matches(running, downloads)

\* The invariant of the proofs: all of its parts hold together.
Inv == /\ TypeOK
       /\ PagesAreClients
       /\ InputFollowsPage
       /\ DownloadsKeepTabs
       /\ HandlersMatch

-----------------------------------------------------------------------------
(* The handlers on the stack and their downloads.                          *)

\* No handler in stack s works on download d.
Unhandled(s, d) == \A i \in 1 .. Len(s) : s[i].load # d

\* A download that a handler works on is at a stage of that handler.
LEMMA AtHandler ==
    ASSUME NEW s, NEW dl, Matches(s, dl), NEW d \in Download,
           dl[d].at \notin {"starts", "over", "finishing"}
    PROVE  Unhandled(s, d)
<1> SUFFICES ASSUME NEW i \in 1 .. Len(s), s[i].load = d PROVE FALSE
    BY DEF Unhandled
<1>1. d # 0
    BY DEF Download
<1>2. Fits(s[i], dl)
    BY DEF Matches
<1> QED BY <1>1, <1>2 DEF Fits

\* A download that no handler works on may change.
LEMMA ChangeUnhandled ==
    ASSUME NEW s, NEW dl, NEW new, NEW d, Matches(s, dl), Unhandled(s, d),
           \A e \in Download : e # d => new[e] = dl[e]
    PROVE  Matches(s, new)
<1>1. ASSUME NEW i \in 1 .. Len(s) PROVE Fits(s[i], new)
    <2>1. Fits(s[i], dl) /\ s[i].load # d
        BY DEF Matches, Unhandled
    <2> QED BY <2>1 DEF Fits
<1> QED BY <1>1 DEF Matches

\* A handler is called for a download that no other handler works on, or for
\* none.
LEMMA PushMatches ==
    ASSUME NEW s \in Seq(Frame), NEW f \in Frame, NEW dl, Matches(s, dl),
           Fits(f, dl), f.load = 0 \/ Unhandled(s, f.load)
    PROVE  Matches(Append(s, f), dl)
<1> DEFINE a == Append(s, f)
<1>1. Len(a) = Len(s) + 1 /\ \A i \in 1 .. Len(s) : a[i] = s[i]
    OBVIOUS
<1>2. a[Len(s) + 1] = f /\ Len(s) \in Nat
    OBVIOUS
<1> HIDE DEF a
<1>3. \A i : i \in 1 .. Len(a) <=> i \in 1 .. Len(s) \/ i = Len(s) + 1
    BY <1>1, <1>2
<1>4. \A i \in 1 .. Len(a) : Fits(a[i], dl)
    BY <1>1, <1>2, <1>3 DEF Matches
<1>5. ASSUME NEW i \in 1 .. Len(a), NEW j \in 1 .. Len(a),
             a[i].load = a[j].load, i # j
      PROVE  a[i].load = 0
    <2>1. CASE i \in 1 .. Len(s) /\ j \in 1 .. Len(s)
        BY <1>1, <1>5, <2>1 DEF Matches
    <2>2. CASE i = Len(s) + 1 /\ j \in 1 .. Len(s)
        BY <1>1, <1>2, <1>5, <2>2 DEF Unhandled
    <2>3. CASE i \in 1 .. Len(s) /\ j = Len(s) + 1
        BY <1>1, <1>2, <1>5, <2>3 DEF Unhandled
    <2> QED BY <1>3, <1>5, <2>1, <2>2, <2>3
<1>6. Matches(a, dl)
    BY <1>4, <1>5 DEF Matches
<1> QED BY <1>6 DEF a

\* The innermost handler returns: the others keep their downloads, and its own
\* is no other's.
LEMMA PopMatches ==
    ASSUME NEW s \in Seq(Frame), s # <<>>, NEW dl, Matches(s, dl)
    PROVE  LET r == SubSeq(s, 1, Len(s) - 1)
               f == s[Len(s)]
           IN  /\ f \in Frame /\ Fits(f, dl)
               /\ r \in Seq(Frame) /\ Matches(r, dl)
               /\ f.load # 0 => Unhandled(r, f.load)
<1> DEFINE r == SubSeq(s, 1, Len(s) - 1)
           f == s[Len(s)]
<1>1. Len(s) \in Nat \ {0} /\ f \in Frame
    OBVIOUS
<1>2. /\ r \in Seq(Frame) /\ Len(r) = Len(s) - 1
      /\ \A i \in 1 .. Len(r) : r[i] = s[i]
    <2>1. \A i \in 1 .. (Len(s) - 1) : s[i] \in Frame
        BY <1>1
    <2>2. 1 \in Int /\ Len(s) - 1 \in Int
        BY <1>1
    <2>3. /\ r \in Seq(Frame)
          /\ Len(r) = IF 1 <= Len(s) - 1 THEN Len(s) - 1 - 1 + 1 ELSE 0
          /\ \A i \in 1 .. (Len(s) - 1 - 1 + 1) : r[i] = s[1 + i - 1]
        BY <2>1, <2>2, SubSeqProperties DEF r
    <2> HIDE DEF r
    <2>4. ASSUME NEW n \in Nat, NEW m, m = IF 1 <= n THEN n - 1 + 1 ELSE 0
          PROVE  m = n /\ n - 1 + 1 = n /\ \A i \in 1 .. n : 1 + i - 1 = i
        BY <2>4
    <2>5. Len(s) - 1 \in Nat
        BY <1>1
    <2>6. Len(r) = Len(s) - 1 /\ Len(s) - 1 - 1 + 1 = Len(s) - 1
        BY <2>3, <2>4, <2>5
    <2>7. \A i \in 1 .. Len(r) : r[i] = s[i]
        BY <2>3, <2>4, <2>5, <2>6
    <2> QED BY <2>3, <2>6, <2>7
<1> HIDE DEF r
<1>3. /\ \A i \in 1 .. Len(r) : i \in 1 .. Len(s) /\ i # Len(s)
      /\ Len(s) \in 1 .. Len(s)
    BY <1>1, <1>2
<1>4. Matches(r, dl)
    BY <1>2, <1>3 DEF Matches
<1>5. Fits(f, dl)
    BY <1>3 DEF Matches
<1>6. ASSUME f.load # 0, NEW i \in 1 .. Len(r) PROVE r[i].load # f.load
    BY <1>2, <1>3, <1>6 DEF Matches
<1> QED BY <1>1, <1>2, <1>4, <1>5, <1>6 DEF r, Unhandled

-----------------------------------------------------------------------------
(* The steps.                                                              *)

\* The stack and the downloads stay: so do the handlers.
LEMMA SameStack ==
    ASSUME HandlersMatch, UNCHANGED <<running, downloads>>
    PROVE  HandlersMatch'
BY DEF HandlersMatch

\* The entry of no download, and what may be entered.
LEMMA Entries ==
    /\ NoDownload \in Load /\ NoDownload.at = "none" /\ NoDownload.tab = 1
    /\ \A r \in Load : r.tab \in Tab /\ r.at \in Stage
    /\ \A t \in Tab, a \in Stage : [tab |-> t, at |-> a] \in Load
    /\ \A r \in Load, a \in Stage : [r EXCEPT !.at = a] \in Load
<1>1. 1 \in Tab /\ "none" \in Stage
    BY BoundsAssumption DEF Tab, Stage
<1> QED BY <1>1 DEF Load, NoDownload

\* The invariant holds at first.
LEMMA InitInv == Init => Inv
<1> SUFFICES ASSUME Init PROVE Inv
    OBVIOUS
<1>1. TypeOK
    <2>1. 1 \in Tab /\ 0 \in Nat /\ 0 \in 0 .. MaxRequests
        BY BoundsAssumption DEF Tab
    <2>2. running \in Seq(Frame)
        BY EmptySeq DEF Init
    <2>3. downloads \in [Download -> [tab : Tab, at : Stage]]
        BY Entries DEF Init, Load
    <2> QED BY <2>1, <2>2, <2>3 DEF Init, TypeOK
<1>2. PagesAreClients /\ InputFollowsPage
    BY DEF Init, PagesAreClients, InputFollowsPage
<1>3. DownloadsKeepTabs
    BY DEF Init, DownloadsKeepTabs, NoDownload, OnList
<1>4. HandlersMatch
    BY DEF Init, HandlersMatch, Matches
<1> QED BY <1>1, <1>2, <1>3, <1>4 DEF Inv

\* Switching to a page of the notebook.
LEMMA SwitchStep ==
    ASSUME Inv, pages # {}, NEW n \in Tab, SwitchPage(n)
    PROVE  current' = n /\ observers' = {n}
BY DEF Inv, SwitchPage, InputFollowsPage, PagesAreClients

\* Closing a tab without the rest of the action that closes it.
LEMMA CloseStep ==
    ASSUME Inv, NEW t \in clients, TabClose(t), created' = created
    PROVE  /\ clients' \subseteq Tab /\ pages' \subseteq Tab
           /\ observers' \subseteq Tab /\ current' \in Tab /\ ended' \in BOOLEAN
           /\ clients' \subseteq clients
           /\ Loads(t) => clients' = clients
           /\ clients' \in {clients, clients \ {t}}
           /\ PagesAreClients' /\ InputFollowsPage'
<1> USE DEF Inv, TypeOK, PagesAreClients, InputFollowsPage
<1>1. CASE Loads(t)
    BY <1>1 DEF TabClose
<1>2. CASE ~Loads(t)
    <2>1. /\ pages' = pages \ {t} /\ clients' = clients \ {t}
          /\ ended' = (pages' = {})
        BY <1>2 DEF TabClose
    <2>2. CASE t = current /\ pages' # {}
        <3>1. PICK n \in pages' : SwitchPage(n)
            BY <1>2, <2>2 DEF TabClose
        <3>2. n \in Tab /\ pages # {} /\ n \in pages'
            BY <2>1, <3>1
        <3>3. current' = n /\ observers' = {n}
            BY <3>1, <3>2, SwitchStep
        <3> QED BY <1>2, <2>1, <3>2, <3>3
    <2>3. CASE ~(t = current /\ pages' # {})
        <3>1. UNCHANGED <<current, observers>>
            BY <1>2, <2>3 DEF TabClose
        <3>2. pages' # {} => current \in pages' /\ observers' = {current}
            BY <2>1, <2>3, <3>1
        <3> QED BY <1>2, <2>1, <3>1, <3>2
    <2> QED BY <2>2, <2>3
<1> QED BY <1>1, <1>2

\* A tab that is closed has no download on its list, so every listed download
\* keeps its client.
LEMMA CloseKeepsDownloads ==
    ASSUME Inv, NEW t \in clients, TabClose(t), created' = created,
           UNCHANGED <<downloads, stale>>
    PROVE  DownloadsKeepTabs'
<1> SUFFICES ASSUME NEW d \in Download, downloads[d].at \in OnList
             PROVE  downloads[d].tab \in clients'
    BY DEF DownloadsKeepTabs, Inv
<1>1. downloads[d].tab \in clients
    BY DEF Inv, DownloadsKeepTabs
<1>2. CASE downloads[d].tab = t
    <2>1. Loads(t)
        BY <1>2 DEF Loads
    <2> QED BY <1>1, <2>1, CloseStep
<1>3. CASE downloads[d].tab # t
    BY <1>1, <1>3, CloseStep
<1> QED BY <1>2, <1>3

\* One download changes: what is entered for it is all that has to be looked at.
LEMMA DownloadStep ==
    ASSUME Inv, UNCHANGED clients, NEW d \in Download, NEW r \in Load,
           downloads' = [downloads EXCEPT ![d] = r],
           r.at \in OnList => r.tab \in clients,
           stale \subseteq stale', "remove" \notin stale',
           r.at = "loose" \/ "finished" \in stale' => "append" \in stale'
    PROVE  /\ downloads' \in [Download -> Load]
           /\ DownloadsKeepTabs'
           /\ \A e \in Download : e # d => downloads'[e] = downloads[e]
           /\ downloads'[d] = r
<1>1. downloads \in [Download -> Load] /\ DownloadsKeepTabs
    BY DEF Inv, TypeOK, Load
<1>2. /\ downloads' \in [Download -> Load] /\ downloads'[d] = r
      /\ \A e \in Download : e # d => downloads'[e] = downloads[e]
    BY <1>1
<1>3. ASSUME NEW e \in Download
      PROVE  /\ downloads'[e].at \in OnList => downloads'[e].tab \in clients
             /\ downloads'[e].at = "loose" => "append" \in stale'
    <2>1. CASE e = d
        BY <1>2, <2>1
    <2>2. CASE e # d
        BY <1>1, <1>2, <2>2 DEF DownloadsKeepTabs
    <2> QED BY <2>1, <2>2
<1> QED BY <1>2, <1>3 DEF DownloadsKeepTabs

\* Only the waiting flag of the innermost frame changes.
LEMMA FlagStep ==
    ASSUME Inv, running # <<>>, NEW b \in BOOLEAN, UNCHANGED downloads,
           running' = [running EXCEPT ![Len(running)].waits = b]
    PROVE  running' \in Seq(Frame) /\ HandlersMatch'
<1>1. running \in Seq(Frame) /\ Len(running) \in Nat \ {0}
    BY DEF Inv, TypeOK
<1>2. \A i \in 1 .. Len(running) : running[i] \in Frame
    BY <1>1
<1> DEFINE f == [running[Len(running)] EXCEPT !.waits = b]
<1>3. /\ f \in Frame
      /\ f.tab = running[Len(running)].tab /\ f.then = running[Len(running)].then
      /\ f.load = running[Len(running)].load
    BY <1>1, <1>2 DEF Frame
<1>4. running' = [running EXCEPT ![Len(running)] = f]
    OBVIOUS
<1> HIDE DEF f
<1>5. running' \in Seq(Frame) /\ Len(running) = Len(running')
    BY <1>1, <1>3, <1>4
<1>6. \A i \in 1 .. Len(running) : /\ running[i].tab = running'[i].tab
                                   /\ running[i].then = running'[i].then
                                   /\ running[i].load = running'[i].load
    BY <1>1, <1>3, <1>4
<1>7. \A i \in 1 .. Len(running) : Fits(running[i], downloads)
    BY DEF Inv, HandlersMatch, Matches
<1>8. \A i \in 1 .. Len(running') : Fits(running'[i], downloads)
    BY <1>5, <1>6, <1>7 DEF Fits
<1>9. HandlersMatch'
    BY <1>5, <1>6, <1>8 DEF Inv, HandlersMatch, Matches
<1> QED BY <1>5, <1>9

\* A handler is called for a client; its download has been entered.
LEMMA PushStep ==
    ASSUME Inv, NEW t \in Tab, NEW e \in Ending, NEW d \in 0 .. MaxDownloads,
           Push(t, e, d), NEW dl, Matches(running, dl),
           Fits([tab |-> t, then |-> e, load |-> d, waits |-> FALSE], dl),
           d = 0 \/ Unhandled(running, d)
    PROVE  running' \in Seq(Frame) /\ Matches(running', dl)
<1> DEFINE f == [tab |-> t, then |-> e, load |-> d, waits |-> FALSE]
<1>1. f \in Frame /\ f.load = d /\ Fits(f, dl) /\ running \in Seq(Frame)
    BY DEF Frame, Inv, TypeOK
<1>2. running' = Append(running, f)
    BY DEF Push
<1> HIDE DEF f
<1>3. Matches(running', dl)
    BY <1>1, <1>2, PushMatches
<1> QED BY <1>1, <1>2, <1>3

\* What on_webctx_download_started leaves: a download on the list of its client
\* is on that of a living one, and one with a freed client had it freed.
LEMMA ConnectStep ==
    ASSUME NEW d \in Download, downloads \in [Download -> Load], Connect(d)
    PROVE  \E r \in Load :
               /\ downloads' = [downloads EXCEPT ![d] = r]
               /\ r.at \in OnList => r.tab \in clients
               /\ r.at = "loose" => downloads[d].tab \notin clients
<1>1. ASSUME NEW a \in {"stuck", "listed", "external", "loose"},
             downloads' = [downloads EXCEPT ![d] = [@ EXCEPT !.at = a]],
             a \in OnList => downloads[d].tab \in clients,
             a = "loose" => downloads[d].tab \notin clients
      PROVE  \E r \in Load :
               /\ downloads' = [downloads EXCEPT ![d] = r]
               /\ r.at \in OnList => r.tab \in clients
               /\ r.at = "loose" => downloads[d].tab \notin clients
    <2> DEFINE r == [downloads[d] EXCEPT !.at = a]
    <2>1. r \in Load /\ r.at = a /\ r.tab = downloads[d].tab
        BY DEF Load, Stage, OnList
    <2>2. downloads' = [downloads EXCEPT ![d] = r]
        BY <1>1
    <2> HIDE DEF r
    <2> QED BY <1>1, <2>1, <2>2
<1>2. CASE downloads' = [downloads EXCEPT ![d] = NoDownload]
    BY <1>2, Entries DEF OnList
<1>3. CASE downloads' # [downloads EXCEPT ![d] = NoDownload]
    <2>1. CASE downloads[d].tab \in clients
        <3>1. \E a \in {"stuck", "listed", "external"} :
                  downloads' = [downloads EXCEPT ![d] = [@ EXCEPT !.at = a]]
            BY <1>3, <2>1 DEF Connect
        <3> QED BY <1>1, <2>1, <3>1
    <2>2. CASE downloads[d].tab \notin clients
        <3>1. \E a \in {"loose", "external"} :
                  downloads' = [downloads EXCEPT ![d] = [@ EXCEPT !.at = a]]
            BY <1>3, <2>2 DEF Connect
        <3> QED BY <1>1, <2>2, <3>1 DEF OnList
    <2> QED BY <2>1, <2>2
<1> QED BY <1>2, <1>3

\* Every step preserves the invariant.
LEMMA NextInv == Inv /\ [Next]_vars => Inv'
<1> SUFFICES ASSUME Inv, [Next]_vars PROVE Inv'
    OBVIOUS
<1> USE DEF Inv
<1>t. TypeOK /\ PagesAreClients /\ InputFollowsPage /\ DownloadsKeepTabs
    OBVIOUS
<1>1. CASE TabNew
    <2>1. /\ created' = created + 1 /\ clients' = clients \cup {created'}
          /\ pages' = pages \cup {created'} /\ SwitchPage(created')
          /\ UNCHANGED <<downloads, idle, requests, running, ended, stale>>
        BY <1>1 DEF TabNew
    <2>2. created' \in Tab
        BY <1>1, <1>t, <2>1, BoundsAssumption DEF TabNew, TypeOK, Tab
    <2>3. pages # {}
        BY <1>1, <1>t DEF TabNew, InMainLoop, Runs, PagesAreClients
    <2>4. current' = created' /\ observers' = {created'}
        BY <2>1, <2>2, <2>3, SwitchStep
    <2>5. TypeOK'
        BY <1>t, <2>1, <2>2, <2>4 DEF TypeOK
    <2>6. PagesAreClients'
        <3>1. \A t \in clients' : t <= created'
            BY <1>t, <2>1 DEF PagesAreClients, TypeOK, Tab
        <3> QED BY <1>t, <2>1, <2>3, <3>1 DEF PagesAreClients
    <2>7. InputFollowsPage' /\ DownloadsKeepTabs'
        BY <1>t, <2>1, <2>4 DEF InputFollowsPage, DownloadsKeepTabs
    <2>8. HandlersMatch'
        BY <2>1, SameStack
    <2> QED BY <2>5, <2>6, <2>7, <2>8
<1>2. ASSUME NEW t \in Tab, GotoTab(t) PROVE Inv'
    <2>1. /\ t \in pages /\ SwitchPage(t)
          /\ UNCHANGED <<clients, pages, created, downloads, idle, requests,
                         running, ended, stale>>
        BY <1>2 DEF GotoTab
    <2>2. current' = t /\ observers' = {t}
        BY <2>1, SwitchStep
    <2>3. TypeOK' /\ PagesAreClients' /\ InputFollowsPage' /\ DownloadsKeepTabs'
        BY <1>t, <2>1, <2>2
           DEF TypeOK, PagesAreClients, InputFollowsPage, DownloadsKeepTabs
    <2> QED BY <2>1, <2>3, SameStack
<1>3. ASSUME NEW t \in clients, TabClose(t),
             UNCHANGED <<created, downloads, requests, running, stale>>,
             idle' \subseteq idle
      PROVE  Inv'
    <2>1. TypeOK' /\ PagesAreClients' /\ InputFollowsPage'
        BY <1>t, <1>3, CloseStep DEF TypeOK
    <2>2. DownloadsKeepTabs'
        BY <1>t, <1>3, CloseKeepsDownloads DEF DownloadsKeepTabs
    <2> QED BY <1>3, <2>1, <2>2, SameStack
<1>4. ASSUME NEW t \in Tab, TabCloseCommand(t) PROVE Inv'
    BY <1>3, <1>4 DEF TabCloseCommand, Runs
<1>5. ASSUME NEW t \in Tab, WebviewClose(t) PROVE Inv'
    BY <1>3, <1>5 DEF WebviewClose
<1>6. ASSUME requests < MaxRequests, requests' = requests + 1,
             \E T \in SUBSET clients, force \in BOOLEAN :
                 idle' = idle \cup {[time |-> requests', tab |-> t,
                                    force |-> force] : t \in T},
             UNCHANGED <<clients, pages, current, observers, created, downloads,
                         running, ended, stale>>
      PROVE  Inv'
    <2>1. requests' \in 1 .. MaxRequests
        BY <1>t, <1>6, BoundsAssumption DEF TypeOK
    <2>2. requests' \in 0 .. MaxRequests
        BY <2>1
    <2>3. idle' \subseteq Request
        BY <1>t, <1>6, <2>1 DEF TypeOK, Request
    <2>4. TypeOK' /\ PagesAreClients' /\ InputFollowsPage' /\ DownloadsKeepTabs'
        BY <1>t, <1>6, <2>2, <2>3
           DEF TypeOK, PagesAreClients, InputFollowsPage, DownloadsKeepTabs
    <2> QED BY <1>6, <2>4, SameStack
<1>7. ASSUME NEW t \in Tab, NEW force \in BOOLEAN, Quit(t, force) PROVE Inv'
    <2>1. {t} \in SUBSET clients
        BY <1>7 DEF Quit, Runs
    <2>2. idle' = idle \cup {[time |-> requests', tab |-> u, force |-> force] :
                                u \in {t}}
        BY <1>7 DEF Quit
    <2> QED BY <1>6, <1>7, <2>1, <2>2 DEF Quit
<1>8. ASSUME NEW force \in BOOLEAN, QuitAll(force) PROVE Inv'
    <2>1. clients \in SUBSET clients
        OBVIOUS
    <2> QED BY <1>6, <1>8, <2>1 DEF QuitAll
<1>9. CASE IdleQuit
    <2>1. PICK q \in idle :
            /\ idle' = idle \ {q}
            /\ IF q.tab \in clients
               THEN TabClose(q.tab) /\ UNCHANGED stale
               ELSE /\ stale' = stale \cup {"quit"}
                    /\ UNCHANGED <<clients, pages, current, observers, ended>>
        BY <1>9 DEF IdleQuit
    <2>2. UNCHANGED <<created, downloads, requests, running>>
        BY <1>9 DEF IdleQuit
    <2>3. CASE q.tab \in clients
        BY <1>3, <2>1, <2>2, <2>3
    <2>4. CASE q.tab \notin clients
        BY <1>t, <2>1, <2>2, <2>4, SameStack
           DEF TypeOK, PagesAreClients, InputFollowsPage, DownloadsKeepTabs
    <2> QED BY <2>3, <2>4
<1>10. CASE WindowClose
    <2>1. \A d \in Download : downloads[d].at \notin OnList
        BY <1>t, <1>10 DEF WindowClose, Busy, Loads, DownloadsKeepTabs
    <2>2. /\ clients' = {} /\ pages' = {} /\ ended' = TRUE
          /\ UNCHANGED <<current, observers, created, downloads, idle, requests,
                         running, stale>>
        BY <1>10 DEF WindowClose
    <2>3. TypeOK' /\ PagesAreClients' /\ InputFollowsPage' /\ DownloadsKeepTabs'
        BY <1>t, <2>1, <2>2
           DEF TypeOK, PagesAreClients, InputFollowsPage, DownloadsKeepTabs
    <2> QED BY <2>2, <2>3, SameStack
<1>11. ASSUME NEW t \in Tab, Command(t) PROVE Inv'
    <2>1. /\ Push(t, "respond", 0)
          /\ UNCHANGED <<clients, pages, current, observers, created, downloads,
                         idle, requests, ended, stale>>
        BY <1>11 DEF Command
    <2>2. "respond" \in Ending /\ 0 \in 0 .. MaxDownloads
        BY BoundsAssumption DEF Ending
    <2>3. Fits([tab |-> t, then |-> "respond", load |-> 0, waits |-> FALSE],
               downloads)
        BY DEF Fits
    <2>4. running' \in Seq(Frame) /\ Matches(running', downloads)
        BY <2>1, <2>2, <2>3, PushStep DEF HandlersMatch
    <2> QED BY <1>t, <2>1, <2>4
            DEF TypeOK, PagesAreClients, InputFollowsPage, DownloadsKeepTabs,
                HandlersMatch
<1>12. ASSUME NEW t \in Tab, DownloadStarted(t) PROVE Inv'
    <2>1. PICK c \in clients, d \in Download :
              /\ Free(d)
              /\ Push(c, "append", d)
              /\ downloads' = [downloads EXCEPT ![d] = [tab |-> c, at |-> "starts"]]
        BY <1>12 DEF DownloadStarted
    <2>2. UNCHANGED <<clients, pages, current, observers, created, idle, requests,
                      ended, stale>>
        BY <1>12 DEF DownloadStarted
    <2> DEFINE r == [tab |-> c, at |-> "starts"]
    <2>3. r \in Load /\ r.tab = c /\ r.at = "starts" /\ c \in Tab
        BY <1>t, Entries DEF TypeOK, Stage
    <2>4. /\ downloads' \in [Download -> Load] /\ DownloadsKeepTabs'
          /\ \A e \in Download : e # d => downloads'[e] = downloads[e]
          /\ downloads'[d] = r
        <3>1. downloads' = [downloads EXCEPT ![d] = r]
            BY <2>1
        <3> HIDE DEF r
        <3> QED BY <1>t, <2>2, <2>3, <3>1, DownloadStep DEF DownloadsKeepTabs, OnList
    <2>5. Unhandled(running, d)
        BY <2>1, AtHandler DEF Free, HandlersMatch
    <2>6. Matches(running, downloads')
        BY <2>4, <2>5, ChangeUnhandled DEF HandlersMatch
    <2>7. Fits([tab |-> c, then |-> "append", load |-> d, waits |-> FALSE],
               downloads')
        BY <2>4 DEF Fits
    <2>8. "append" \in Ending /\ d \in 0 .. MaxDownloads
        BY BoundsAssumption DEF Ending, Download
    <2>9. running' \in Seq(Frame) /\ HandlersMatch'
        BY <2>1, <2>3, <2>5, <2>6, <2>7, <2>8, PushStep DEF HandlersMatch
    <2> QED BY <1>t, <2>2, <2>4, <2>9
            DEF TypeOK, Load, PagesAreClients, InputFollowsPage
<1>13. ASSUME NEW d \in Download, DownloadEndsUnheard(d) PROVE Inv'
    <2>1. /\ downloads[d].at = "starts"
          /\ downloads' = [downloads EXCEPT ![d].at = "over"]
          /\ UNCHANGED <<clients, pages, current, observers, created, idle,
                         requests, running, ended, stale>>
        BY <1>13 DEF DownloadEndsUnheard
    <2> DEFINE r == [downloads[d] EXCEPT !.at = "over"]
    <2>2. r \in Load /\ r.tab = downloads[d].tab /\ r.at = "over"
        BY <1>t, Entries DEF TypeOK, Stage, Load
    <2>3. downloads' = [downloads EXCEPT ![d] = r]
        BY <2>1
    <2> HIDE DEF r
    <2>4. /\ downloads' \in [Download -> Load] /\ DownloadsKeepTabs'
          /\ \A e \in Download : e # d => downloads'[e] = downloads[e]
          /\ downloads'[d] = r
        BY <1>t, <2>1, <2>2, <2>3, DownloadStep DEF DownloadsKeepTabs, OnList
    <2>5. ASSUME NEW i \in 1 .. Len(running) PROVE Fits(running[i], downloads')
        <3>1. Fits(running[i], downloads)
            BY DEF HandlersMatch, Matches
        <3> QED BY <2>1, <2>2, <2>4, <3>1 DEF Fits
    <2>6. HandlersMatch'
        BY <2>1, <2>5 DEF HandlersMatch, Matches
    <2> QED BY <1>t, <2>1, <2>4, <2>6
            DEF TypeOK, Load, PagesAreClients, InputFollowsPage
<1>14. ASSUME NEW d \in Download, DownloadFinished(d) PROVE Inv'
    <2>1. /\ downloads[d].at \in {"listed", "loose"}
          /\ UNCHANGED <<clients, pages, current, observers, created, idle,
                         requests, ended>>
        BY <1>14 DEF DownloadFinished
    <2>2. Unhandled(running, d)
        BY <2>1, AtHandler DEF HandlersMatch
    <2>3. CASE downloads[d].tab \in clients
        <3> DEFINE r == [downloads[d] EXCEPT !.at = "finishing"]
                   c == downloads[d].tab
        <3>1. /\ Push(c, "remove", d) /\ UNCHANGED stale
              /\ downloads' = [downloads EXCEPT ![d] = r]
            BY <1>14, <2>3 DEF DownloadFinished
        <3>2. r \in Load /\ r.tab = c /\ r.at = "finishing" /\ c \in Tab
            <4>1. downloads[d] \in Load /\ "finishing" \in Stage
                BY <1>t DEF TypeOK, Stage, OnList, Load
            <4>2. r \in Load
                BY <4>1, Entries
            <4> QED BY <4>1, <4>2, Entries DEF Load
        <3> HIDE DEF r
        <3>3. /\ downloads' \in [Download -> Load] /\ DownloadsKeepTabs'
              /\ \A e \in Download : e # d => downloads'[e] = downloads[e]
              /\ downloads'[d] = r
            BY <1>t, <2>1, <2>3, <3>1, <3>2, DownloadStep DEF DownloadsKeepTabs
        <3>4. Matches(running, downloads')
            BY <2>2, <3>3, ChangeUnhandled DEF HandlersMatch
        <3>5. Fits([tab |-> c, then |-> "remove", load |-> d, waits |-> FALSE],
                   downloads')
            BY <3>2, <3>3 DEF Fits
        <3>6. "remove" \in Ending /\ d \in 0 .. MaxDownloads
            BY BoundsAssumption DEF Ending, Download
        <3>7. running' \in Seq(Frame) /\ HandlersMatch'
            BY <2>2, <3>1, <3>2, <3>4, <3>5, <3>6, PushStep DEF HandlersMatch
        <3> QED BY <1>t, <2>1, <3>1, <3>3, <3>7
                DEF TypeOK, Load, PagesAreClients, InputFollowsPage
    <2>4. CASE downloads[d].tab \notin clients
        <3>1. /\ downloads' = [downloads EXCEPT ![d] = NoDownload]
              /\ stale' = stale \cup {"finished"} /\ UNCHANGED running
            BY <1>14, <2>4 DEF DownloadFinished
        <3>2. "append" \in stale
            BY <1>t, <2>1, <2>4 DEF DownloadsKeepTabs, OnList
        <3>3. /\ downloads' \in [Download -> Load] /\ DownloadsKeepTabs'
              /\ \A e \in Download : e # d => downloads'[e] = downloads[e]
            BY <1>t, <2>1, <3>1, <3>2, Entries, DownloadStep
               DEF DownloadsKeepTabs, OnList
        <3>4. HandlersMatch'
            BY <2>2, <3>1, <3>3, ChangeUnhandled DEF HandlersMatch
        <3>5. stale' \subseteq Ending \cup {"quit", "finished", "response"}
            BY <1>t, <3>1 DEF TypeOK
        <3> QED BY <1>t, <2>1, <3>1, <3>3, <3>4, <3>5
                DEF TypeOK, Load, PagesAreClients, InputFollowsPage
    <2> QED BY <2>3, <2>4
<1>20. ASSUME NEW d \in Download, DownloadResponse(d) PROVE Inv'
    <2>1. /\ downloads[d].at = "external"
          /\ downloads' = [downloads EXCEPT ![d] = NoDownload]
          /\ stale' \in {stale, stale \cup {"response"}}
          /\ UNCHANGED <<clients, pages, current, observers, created, idle,
                         requests, running, ended>>
        BY <1>20 DEF DownloadResponse
    <2>2. /\ downloads' \in [Download -> Load] /\ DownloadsKeepTabs'
          /\ \A e \in Download : e # d => downloads'[e] = downloads[e]
        BY <1>t, <2>1, Entries, DownloadStep DEF DownloadsKeepTabs, OnList
    <2>3. HandlersMatch'
        <3>1. Unhandled(running, d)
            BY <2>1, AtHandler DEF HandlersMatch
        <3> QED BY <2>1, <2>2, <3>1, ChangeUnhandled DEF HandlersMatch
    <2>4. stale' \subseteq Ending \cup {"quit", "finished", "response"}
        BY <1>t, <2>1 DEF TypeOK
    <2> QED BY <1>t, <2>1, <2>2, <2>3, <2>4
            DEF TypeOK, Load, PagesAreClients, InputFollowsPage
<1>15. ASSUME NEW b \in BOOLEAN, running # <<>>,
              running' = [running EXCEPT ![Len(running)].waits = b],
              UNCHANGED <<clients, pages, current, observers, created, downloads,
                          idle, requests, ended, stale>>
       PROVE  Inv'
    <2>1. running' \in Seq(Frame) /\ HandlersMatch'
        BY <1>15, FlagStep
    <2> QED BY <1>t, <1>15, <2>1
            DEF TypeOK, PagesAreClients, InputFollowsPage, DownloadsKeepTabs
<1>16. CASE Wait
    BY <1>15, <1>16 DEF Wait
<1>17. CASE Answer
    BY <1>15, <1>17 DEF Answer
<1>18. CASE Return
    <2> DEFINE f == running[Len(running)]
    <2>1. /\ running # <<>> /\ running \in Seq(Frame)
          /\ running' = SubSeq(running, 1, Len(running) - 1)
          /\ UNCHANGED <<clients, pages, current, observers, created, idle,
                         requests, ended>>
        BY <1>t, <1>18 DEF Return, TypeOK
    <2>2. /\ f \in Frame /\ Fits(f, downloads)
          /\ running' \in Seq(Frame) /\ Matches(running', downloads)
          /\ f.load # 0 => Unhandled(running', f.load)
        BY <2>1, PopMatches DEF HandlersMatch
    <2>3. /\ stale' = IF f.tab \in clients THEN stale ELSE stale \cup {f.then}
          /\ \/ f.then = "respond" /\ UNCHANGED downloads
             \/ f.then = "append" /\ Connect(f.load)
             \/ /\ f.then = "remove"
                /\ downloads' = [downloads EXCEPT ![f.load] = NoDownload]
        BY <1>18 DEF Return, Top
    <2> HIDE DEF f
    <2>4. f.tab \in Tab /\ f.then \in Ending
        BY <2>2 DEF Frame
    <2>5. stale' \subseteq Ending \cup {"quit", "finished", "response"}
        BY <1>t, <2>3, <2>4 DEF TypeOK
    <2>6. SUFFICES downloads' \in [Download -> Load] /\ DownloadsKeepTabs'
                   /\ HandlersMatch'
        BY <1>t, <2>1, <2>2, <2>5
           DEF TypeOK, Load, PagesAreClients, InputFollowsPage
    <2>7. CASE f.then = "respond"
        BY <1>t, <2>1, <2>2, <2>3, <2>7
           DEF TypeOK, Load, DownloadsKeepTabs, HandlersMatch
    <2>8. CASE f.then = "append"
        <3> DEFINE d == f.load
        <3>1. d \in Download /\ downloads[d].tab = f.tab /\ d # 0
            BY <2>2, <2>8 DEF Fits, Download
        <3>2. PICK r \in Load :
                  /\ downloads' = [downloads EXCEPT ![d] = r]
                  /\ r.at \in OnList => r.tab \in clients
                  /\ r.at = "loose" => f.tab \notin clients
            BY <1>t, <2>3, <2>8, <3>1, ConnectStep DEF TypeOK, Load
        <3>3. "remove" \notin stale' /\ stale \subseteq stale'
              /\ (f.tab \notin clients => "append" \in stale')
            BY <1>t, <2>3, <2>8 DEF DownloadsKeepTabs
        <3>4. "finished" \in stale' => "append" \in stale'
            BY <1>t, <2>3, <2>8 DEF DownloadsKeepTabs
        <3> HIDE DEF d
        <3>5. /\ downloads' \in [Download -> Load] /\ DownloadsKeepTabs'
              /\ \A e \in Download : e # d => downloads'[e] = downloads[e]
            BY <2>1, <3>1, <3>2, <3>3, <3>4, DownloadStep
        <3>6. Unhandled(running', d)
            BY <2>2, <3>1 DEF d
        <3> QED BY <2>2, <3>5, <3>6, ChangeUnhandled DEF HandlersMatch
    <2>9. CASE f.then = "remove"
        <3> DEFINE d == f.load
        <3>1. /\ d \in Download /\ downloads[d].tab = f.tab /\ d # 0
              /\ downloads[d].at = "finishing"
            BY <2>2, <2>9 DEF Fits, Download
        <3>2. f.tab \in clients
            BY <1>t, <3>1 DEF DownloadsKeepTabs, OnList
        <3>3. stale' = stale /\ downloads' = [downloads EXCEPT ![d] = NoDownload]
            BY <2>3, <2>9, <3>2
        <3>4. Unhandled(running', d)
            BY <2>2, <3>1
        <3> HIDE DEF d
        <3>5. /\ downloads' \in [Download -> Load] /\ DownloadsKeepTabs'
              /\ \A e \in Download : e # d => downloads'[e] = downloads[e]
            BY <1>t, <2>1, <3>1, <3>3, Entries, DownloadStep
               DEF DownloadsKeepTabs, OnList
        <3> QED BY <2>2, <3>4, <3>5, ChangeUnhandled DEF HandlersMatch
    <2> QED BY <2>4, <2>7, <2>8, <2>9 DEF Ending
<1>19. CASE UNCHANGED vars
    BY <1>t, <1>19, SameStack
       DEF vars, TypeOK, PagesAreClients, InputFollowsPage, DownloadsKeepTabs
<1> QED BY <1>1, <1>2, <1>4, <1>5, <1>7, <1>8, <1>9, <1>10, <1>11, <1>12, <1>13,
           <1>14, <1>20, <1>16, <1>17, <1>18, <1>19 DEF Next

-----------------------------------------------------------------------------
(* The theorems.                                                           *)

\* The invariant holds in every reachable state.
THEOREM Invariance == Spec => []Inv
BY InitInv, NextInv, PTL DEF Spec

\* Types: the sets of clients and pages, the stack of handlers, and the client
\* and stage of every download.
THEOREM TypeCorrect == Spec => []TypeOK
<1>1. Inv => TypeOK
    BY DEF Inv
<1> QED BY <1>1, Invariance, PTL

\* vb.clients and the notebook hold the same tabs, and the program ends with
\* the last one (vb_tab_new, vb_tab_close, on_main_window_destroy).
THEOREM ClientListIsNotebook == Spec => []PagesAreClients
<1>1. Inv => PagesAreClients
    BY DEF Inv
<1> QED BY <1>1, Invariance, PTL

\* The input buffer is observed by the client of the shown page alone
\* (on_notebook_switch_page).
THEOREM InputIsOfShownPage == Spec => []InputFollowsPage
<1>1. Inv => InputFollowsPage
    BY DEF Inv
<1> QED BY <1>1, Invariance, PTL

\* A download on state.downloads keeps its client alive until
\* on_webdownload_finished has used it (vb_tab_close, quit, on_webview_close,
\* on_main_window_delete_event), and a finished download meets a freed client
\* only after on_webctx_download_started itself met one.
THEOREM DownloadsAreSafe == Spec => [](DownloadsKeepTabs /\ HandlersMatch)
<1>1. Inv => DownloadsKeepTabs /\ HandlersMatch
    BY DEF Inv
<1> QED BY <1>1, Invariance, PTL
=============================================================================
