------------------------------ MODULE Autocmd ------------------------------
(***************************************************************************)
(* The automatic commands of one client: src/autocmd.c.                *)
(*                                                                         *)
(* Commands are registered in groups for sets of events.  An event runs    *)
(* the matching commands group by group; a command is any ex command, so   *)
(* it may itself register and delete commands and groups, and through a    *)
(* nested main loop another event may fire before it returns.  Every       *)
(* active call of autocmd_run is a frame of `stack`, its head the running  *)
(* one.                                                                    *)
(*                                                                         *)
(* Groups and commands are numbered in the order of their creation.  The   *)
(* group list is prepended to, so it holds the groups by falling number;   *)
(* the commands of a group are appended, so they run by rising number.     *)
(***************************************************************************)
EXTENDS Integers, Sequences, FiniteSets

CONSTANTS
    Event,       \* the single events (events[] of autocmd.c without "*")
    Name,        \* names the user gives to groups; "end" is EndName
    EndName,     \* the name of the default group
    EventWord,   \* words that stand for events, as "*" or "LoadStarted,*"
    BitsOf,      \* EventWord -> the events of a word, none for a bad name
    NoWord,      \* stands for a word that is not there
    Pattern,     \* patterns, "*" included
    Uri,         \* URIs of events, and NoUri for an event without one
    NoUri,
    WildMatch,   \* util_wildmatch: pairs <<pattern, matched pattern or URI>>
    MaxGroups,   \* bound: groups ever created
    MaxCmds,     \* bound: commands ever added
    MaxOps,      \* bound: ex commands and events of a behaviour
    MaxStack     \* bound: nesting of autocmd_run calls

ASSUME AutocmdAssumption ==
    /\ EndName \notin Name
    /\ NoWord \notin Name \cup {EndName} \cup EventWord
    /\ BitsOf \in [EventWord -> SUBSET Event]
    /\ NoUri \in Uri
    /\ Name \cap EventWord = {}
    /\ MaxGroups \in Nat /\ MaxCmds \in Nat /\ MaxOps \in Nat /\ MaxStack \in Nat

VARIABLES
    groups,     \* c->autocmd.groups: a function on the numbers of the groups
    curgroup,   \* the number of c->autocmd.curgroup
    usedbits,   \* c->autocmd.usedbits
    stack,      \* active calls of autocmd_run, innermost first
    undefined,  \* freed memory was used
    nextGroup, nextCmd, ops

vars == <<groups, curgroup, usedbits, stack, undefined, nextGroup, nextCmd, ops>>

Cmd == [nr : Nat, bits : (SUBSET Event) \ {{}}, pattern : Pattern]
Group == [name : Name \cup {EndName}, cmds : SUBSET Cmd]

Frame == [at    : {"test", "command"},
          event : Event,
          uri   : Uri,
          group : Nat,          \* lg
          todo  : SUBSET Cmd,   \* the rest of the copied commands
          due   : SUBSET Nat,   \* history: registered for it when it fired
          ran   : SUBSET Nat]   \* history: run by this call

-----------------------------------------------------------------------------
(* The list of groups.                                                     *)

Live == DOMAIN groups
Created == 0..(nextGroup - 1)
\* groups->data, the group at the front of the list.
IsFront(g) == g \in Live /\ \A h \in Live : h <= g
IsNext(g, h) == h \in Live /\ h < g /\ \A k \in Live : k < g => k <= h
IsLast(g) == \A h \in Live : g <= h
\* get_group.
Named(name) == {g \in Live : groups[g].name = name}

\* rebuild_used_bits, for the group list gs.
AllBits(gs) == UNION {cmd.bits : cmd \in UNION {gs[g].cmds : g \in DOMAIN gs}}

\* Patterns are compared with the URI only if the event has one.
UriMatches(pattern, uri) == uri = NoUri \/ <<pattern, uri>> \in WildMatch

\* autocmd_run is between two commands.
Running == ~undefined /\ stack # <<>> /\ Head(stack).at = "test"

\* An ex command runs: typed by the user, or by an autocommand.
InCommand == ~undefined /\ ~Running
Typed == InCommand /\ ops < MaxOps /\ ops' = ops + 1

-----------------------------------------------------------------------------
(* :augroup                                                                *)

\* :augroup end
SelectDefault ==
    /\ Typed
    /\ \E g \in Live : IsFront(g) /\ curgroup' = g
    /\ UNCHANGED <<groups, usedbits, stack, undefined, nextGroup, nextCmd>>

\* :augroup {name} of a known group.
SelectGroup(name) ==
    /\ Typed
    /\ \E g \in Named(name) : curgroup' = g
    /\ UNCHANGED <<groups, usedbits, stack, undefined, nextGroup, nextCmd>>

\* Mutant: a new group is created although there is one of that name.
MutantCreateTwice(name) ==
    /\ Typed
    /\ nextGroup <= MaxGroups
    /\ groups' = [g \in Live \cup {nextGroup} |->
                    IF g = nextGroup THEN [name |-> name, cmds |-> {}] ELSE groups[g]]
    /\ curgroup' = nextGroup
    /\ nextGroup' = nextGroup + 1
    /\ UNCHANGED <<usedbits, stack, undefined, nextCmd>>

\* :augroup {name} of a new group, which is put at the front of the list.
CreateGroup(name) ==
    /\ Typed
    /\ Named(name) = {}
    /\ nextGroup <= MaxGroups
    /\ groups' = [g \in Live \cup {nextGroup} |->
                    IF g = nextGroup THEN [name |-> name, cmds |-> {}] ELSE groups[g]]
    /\ curgroup' = nextGroup
    /\ nextGroup' = nextGroup + 1
    /\ UNCHANGED <<usedbits, stack, undefined, nextCmd>>

\* Mutant: the used bits are not rebuilt.
MutantKeepBits(name) ==
    /\ Typed
    /\ \E g \in Named(name) :
        /\ IF curgroup = g THEN \E h \in Live : IsFront(h) /\ curgroup' = h
                           ELSE UNCHANGED curgroup
        /\ groups' = [h \in Live \ {g} |-> groups[h]]
        /\ UNCHANGED usedbits
    /\ UNCHANGED <<stack, undefined, nextGroup, nextCmd>>

\* :augroup! {name}.  The current group is replaced by the one at the front,
\* which may be the one that is freed.
DeleteGroup(name) ==
    /\ Typed
    /\ \E g \in Named(name) :
        /\ IF curgroup = g THEN \E h \in Live : IsFront(h) /\ curgroup' = h
                           ELSE UNCHANGED curgroup
        /\ groups' = [h \in Live \ {g} |-> groups[h]]
        /\ usedbits' = AllBits(groups')
    /\ UNCHANGED <<stack, undefined, nextGroup, nextCmd>>

-----------------------------------------------------------------------------
(* :autocmd                                                                *)

\* The parsed argument: [group] {event} {pattern} {cmd}.  A first word that is
\* no known group is taken for the event; missing words stand for all events
\* and all patterns.
Argument == [group   : Name \cup {EndName, NoWord},
             event   : EventWord \cup {NoWord},
             pattern : Pattern,
             add     : BOOLEAN]

\* The groups that may be meant: the named one, or the current one.
IsTarget(arg, g) ==
    IF arg.group # NoWord THEN g \in Named(arg.group) ELSE g = curgroup

Bits(arg) == IF arg.event = NoWord THEN Event ELSE BitsOf[arg.event]

\* The commands a :autocmd! leaves: those for other events or other patterns.
Kept(cmds, arg) ==
    {cmd \in cmds : \/ cmd.bits \cap Bits(arg) = {}
                    \/ <<arg.pattern, cmd.pattern>> \notin WildMatch}

Added(arg) ==
    IF arg.add THEN {[nr |-> nextCmd, bits |-> Bits(arg), pattern |-> arg.pattern]}
               ELSE {}

\* Mutant: the new command's bits replace the used bits.
MutantAssignBits(arg, delete) ==
    /\ Typed
    /\ arg.add => nextCmd <= MaxCmds
    /\ \E g \in Created :
        /\ IsTarget(arg, g)
        /\ IF g \notin Live THEN undefined' = TRUE /\ UNCHANGED <<groups, usedbits>>
           ELSE LET cmds == IF delete THEN Kept(groups[g].cmds, arg) ELSE groups[g].cmds
                IN  /\ groups' = [groups EXCEPT ![g].cmds = cmds \cup Added(arg)]
                    /\ usedbits' = IF arg.add THEN Bits(arg)
                                   ELSE IF cmds # groups[g].cmds THEN AllBits(groups')
                                   ELSE usedbits
                    /\ UNCHANGED undefined
    /\ nextCmd' = IF arg.add THEN nextCmd + 1 ELSE nextCmd
    /\ UNCHANGED <<curgroup, stack, nextGroup>>

\* Mutant: a bad event name is not refused.
MutantEmptyBits(arg, delete) ==
    /\ Typed
    /\ arg.add => nextCmd <= MaxCmds
    /\ \E g \in Created :
        /\ IsTarget(arg, g)
        /\ IF g \notin Live THEN undefined' = TRUE /\ UNCHANGED <<groups, usedbits>>
           ELSE LET cmds == IF delete THEN Kept(groups[g].cmds, arg) ELSE groups[g].cmds
                    base == IF cmds # groups[g].cmds
                            THEN AllBits([groups EXCEPT ![g].cmds = cmds]) ELSE usedbits
                IN  /\ groups' = [groups EXCEPT ![g].cmds = cmds \cup Added(arg)]
                    /\ usedbits' = IF arg.add THEN base \cup Bits(arg) ELSE base
                    /\ UNCHANGED undefined
    /\ nextCmd' = IF arg.add THEN nextCmd + 1 ELSE nextCmd
    /\ UNCHANGED <<curgroup, stack, nextGroup>>

\* autocmd_add.  A bad event name is refused.  The bang removes first; the used bits are rebuilt only if a
\* command was removed.
AddCmd(arg, delete) ==
    /\ Typed
    /\ Bits(arg) # {}
    /\ arg.add => nextCmd <= MaxCmds
    /\ \E g \in Created :
        /\ IsTarget(arg, g)
        /\ IF g \notin Live THEN undefined' = TRUE /\ UNCHANGED <<groups, usedbits>>
           ELSE LET cmds == IF delete THEN Kept(groups[g].cmds, arg) ELSE groups[g].cmds
                    base == IF cmds # groups[g].cmds
                            THEN AllBits([groups EXCEPT ![g].cmds = cmds]) ELSE usedbits
                IN  /\ groups' = [groups EXCEPT ![g].cmds = cmds \cup Added(arg)]
                    /\ usedbits' = IF arg.add THEN base \cup Bits(arg) ELSE base
                    /\ UNCHANGED undefined
    /\ nextCmd' = IF arg.add THEN nextCmd + 1 ELSE nextCmd
    /\ UNCHANGED <<curgroup, stack, nextGroup>>

-----------------------------------------------------------------------------
(* autocmd_run                                                             *)

Registered == UNION {groups[g].cmds : g \in Live}
ForEvent(cmd, event, uri) == event \in cmd.bits /\ UriMatches(cmd.pattern, uri)

\* The main loop delivers an event; without a used bit nothing is searched.
Fire(event, uri) ==
    /\ Typed
    /\ Len(stack) < MaxStack
    /\ IF event \in usedbits
       THEN \E g \in Live :
              /\ IsFront(g)
              /\ stack' = <<[at |-> "test", event |-> event, uri |-> uri,
                             group |-> g, todo |-> groups[g].cmds,
                             due |-> {cmd.nr : cmd \in
                                        {d \in Registered : ForEvent(d, event, uri)}},
                             ran |-> {}]>> \o stack
       ELSE UNCHANGED stack
    /\ UNCHANGED <<groups, curgroup, usedbits, undefined, nextGroup, nextCmd>>

SetTop(f) == stack' = <<f>> \o Tail(stack)

IsFirst(cmd, cmds) == \A d \in cmds : cmd.nr <= d.nr
Wanted(cmd, frame) == ForEvent(cmd, frame.event, frame.uri)

\* Mutant: a command that is not for this event is skipped without advancing.
MutantSkipStays ==
    /\ Running
    /\ \E cmd \in Head(stack).todo :
        /\ IsFirst(cmd, Head(stack).todo)
        /\ IF Wanted(cmd, Head(stack))
           THEN SetTop([Head(stack) EXCEPT !.todo = @ \ {cmd}, !.at = "command",
                                           !.ran = @ \cup {cmd.nr}])
           ELSE UNCHANGED stack
    /\ UNCHANGED <<groups, curgroup, usedbits, undefined, nextGroup, nextCmd, ops>>

\* The next command of the copy: run it if it is for this event and URI.
TestCmd ==
    /\ Running
    /\ \E cmd \in Head(stack).todo :
        /\ IsFirst(cmd, Head(stack).todo)
        /\ SetTop([Head(stack) EXCEPT
                     !.todo = @ \ {cmd},
                     !.ran = IF Wanted(cmd, Head(stack)) THEN @ \cup {cmd.nr} ELSE @,
                     !.at = IF Wanted(cmd, Head(stack)) THEN "command" ELSE "test"])
    /\ UNCHANGED <<groups, curgroup, usedbits, undefined, nextGroup, nextCmd, ops>>

\* ex_run_string returns.
CmdDone ==
    /\ ~undefined
    /\ stack # <<>> /\ Head(stack).at = "command"
    /\ SetTop([Head(stack) EXCEPT !.at = "test"])
    /\ UNCHANGED <<groups, curgroup, usedbits, undefined, nextGroup, nextCmd, ops>>

\* Mutant: behind a freed link the search starts over at the front of the list.
MutantRestart ==
    /\ Running
    /\ Head(stack).todo = {}
    /\ LET lg == Head(stack).group
       IN  IF lg \in Live /\ IsLast(lg) THEN stack' = Tail(stack)
           ELSE \E g \in Live :
                  /\ IF lg \in Live THEN IsNext(lg, g) ELSE IsFront(g)
                  /\ SetTop([Head(stack) EXCEPT !.group = g,
                                                !.todo = groups[g].cmds])
    /\ UNCHANGED <<groups, curgroup, usedbits, undefined, nextGroup, nextCmd, ops>>

\* Mutant: a group without commands ends the search.
MutantStopAtEmpty ==
    /\ Running
    /\ Head(stack).todo = {}
    /\ LET lg == Head(stack).group
       IN  IF lg \notin Live THEN undefined' = TRUE /\ UNCHANGED stack
           ELSE /\ UNCHANGED undefined
                /\ IF IsLast(lg) \/ groups[lg].cmds = {} THEN stack' = Tail(stack)
                   ELSE \E g \in Live :
                          /\ IsNext(lg, g)
                          /\ SetTop([Head(stack) EXCEPT !.group = g,
                                                        !.todo = groups[g].cmds])
    /\ UNCHANGED <<groups, curgroup, usedbits, nextGroup, nextCmd, ops>>

\* lg->next: the next group, or the end.  A link that was freed by a command of
\* its group leads anywhere.
NextLink ==
    /\ Running
    /\ Head(stack).todo = {}
    /\ LET lg == Head(stack).group
       IN  IF lg \notin Live THEN undefined' = TRUE /\ UNCHANGED stack
           ELSE /\ UNCHANGED undefined
                /\ IF IsLast(lg) THEN stack' = Tail(stack)
                   ELSE \E g \in Live :
                          /\ IsNext(lg, g)
                          /\ SetTop([Head(stack) EXCEPT !.group = g,
                                                        !.todo = groups[g].cmds])
    /\ UNCHANGED <<groups, curgroup, usedbits, nextGroup, nextCmd, ops>>

-----------------------------------------------------------------------------
\* autocmd_init
Init ==
    /\ groups = [g \in {0} |-> [name |-> EndName, cmds |-> {}]]
    /\ curgroup = 0
    /\ usedbits = {}
    /\ stack = <<>>
    /\ undefined = FALSE
    /\ nextGroup = 1 /\ nextCmd = 1 /\ ops = 0

Run == TestCmd \/ NextLink

ExCommand ==
    \/ SelectDefault
    \/ \E name \in Name : SelectGroup(name) \/ CreateGroup(name) \/ DeleteGroup(name)
    \/ \E arg \in Argument, delete \in BOOLEAN : AddCmd(arg, delete)

Next ==
    \/ ExCommand
    \/ \E event \in Event, uri \in Uri : Fire(event, uri)
    \/ Run
    \/ CmdDone

Spec == Init /\ [][Next]_vars

\* A run continues and every ex command returns.
Fairness == WF_vars(Run) /\ WF_vars(CmdDone)
FairSpec == Spec /\ Fairness

-----------------------------------------------------------------------------
(* Properties.                                                             *)

\* Type correctness.
TypeOK ==
    /\ Live \subseteq Nat
    /\ \A g \in Live : g < nextGroup
    /\ groups \in [Live -> Group]
    /\ curgroup \in Nat
    /\ usedbits \subseteq Event
    /\ stack \in Seq(Frame)
    /\ undefined \in BOOLEAN
    /\ nextGroup \in Nat /\ nextCmd \in Nat /\ ops \in Nat

\* The shortcut of autocmd_run is right: in every order of adding, replacing and
\* deleting, also from within autocommands, the used bits are exactly the events
\* some registered command waits for.
UsedBitsExact == usedbits = AllBits(groups)

\* The default group is there as long as the client, so groups->data is never
\* dereferenced on an empty list, and no two groups have the same name.
DefaultGroupStays ==
    /\ Named(EndName) = {0}
    /\ \A g, h \in Live : groups[g].name = groups[h].name => g = h

\* Every run of autocommands ends, or has used freed memory.
RunsEnd == [](stack # <<>> => <>(stack = <<>> \/ undefined))

\* A run misses nothing: when it ends, it has run every command that waited for
\* the event when it fired and is still registered, whatever groups and commands
\* the commands before it, or nested runs, created and deleted.
RunsAllDue ==
    [][NextLink /\ Len(stack') < Len(stack) =>
         \A cmd \in Registered :
           cmd.nr \in Head(stack).due => cmd.nr \in Head(stack).ran]_vars

\* A run executes no command twice, also when the group list changes under it.
RunsOnce ==
    [][\A cmd \in Registered :
         TestCmd /\ cmd \in Head(stack).todo /\ Wanted(cmd, Head(stack))
         /\ IsFirst(cmd, Head(stack).todo) => cmd.nr \notin Head(stack).ran]_vars

\* autocmd_run runs what was registered when the event fired and still is, each
\* command once.
RunsDueOnce == RunsAllDue /\ RunsOnce

-----------------------------------------------------------------------------
(* What the manual or a comment says and the code does not keep.           *)

\* 'The name "end" selects the default group' (vimb.1).
EndSelectsDefault == [][SelectDefault => curgroup' = 0]_vars

\* Deleting the current group switches to the default group ("switch the the
\* default group after removing it", autocmd.c), so the current group is there.
CurrentGroupExists == curgroup \in Live

\* The commands an autocommand runs may modify the groups ("it can be modified
\* by ex_run_string() below", autocmd.c).
RunIsSafe == [][NextLink => ~undefined']_vars

\* "autocommands are executed in the order in which they were given" (vimb.1): no
\* command runs behind one that was added later.
InGivenOrder ==
    [][TestCmd => \A nr \in Head(stack').ran \ Head(stack).ran :
                    \A before \in Head(stack).ran : before < nr]_vars
=============================================================================
