--------------------------- MODULE Autocmd_proofs ---------------------------
(* Proofs about the automatic commands of Autocmd.                         *)
EXTENDS Autocmd, SequenceTheorems, TLAPS

Inv ==
    /\ TypeOK
    /\ UsedBitsExact
    /\ DefaultGroupStays

-----------------------------------------------------------------------------
(* Lemmas.                                                                 *)

\* An event is used iff a command of some group waits for it.
LEMMA AllBitsMember ==
    ASSUME NEW gs, NEW e
    PROVE  e \in AllBits(gs) <=>
             \E g \in DOMAIN gs : \E cmd \in gs[g].cmds : e \in cmd.bits
  BY DEF AllBits

\* The events used by a group list depend on its commands only.
LEMMA AllBitsEqual ==
    ASSUME NEW gs, NEW hs,
           UNION {gs[g].cmds : g \in DOMAIN gs} = UNION {hs[g].cmds : g \in DOMAIN hs}
    PROVE  AllBits(gs) = AllBits(hs)
  BY DEF AllBits

\* The group list with the commands of one group replaced.
WithCmds(gs, g, C) == [gs EXCEPT ![g].cmds = C]

\* Adding commands to one group adds their events.
LEMMA AllBitsAdd ==
    ASSUME NEW gs, NEW g \in DOMAIN gs, NEW C, NEW A,
           \A h \in DOMAIN gs : gs[h] = [name |-> gs[h].name, cmds |-> gs[h].cmds]
    PROVE  AllBits(WithCmds(gs, g, C \cup A)) =
             AllBits(WithCmds(gs, g, C)) \cup UNION {cmd.bits : cmd \in A}
<1> DEFINE hs == WithCmds(gs, g, C \cup A)
           ks == WithCmds(gs, g, C)
<1>1. /\ DOMAIN hs = DOMAIN gs /\ DOMAIN ks = DOMAIN gs
      /\ hs[g].cmds = C \cup A /\ ks[g].cmds = C
      /\ \A h \in DOMAIN gs : h # g => hs[h] = gs[h] /\ ks[h] = gs[h]
  BY DEF WithCmds
<1> HIDE DEF hs, ks
<1>2. ASSUME NEW e
      PROVE  e \in AllBits(hs) <=>
               e \in AllBits(ks) \/ \E cmd \in A : e \in cmd.bits
  <2>1. e \in AllBits(hs) <=>
          \E h \in DOMAIN gs : \E cmd \in hs[h].cmds : e \in cmd.bits
    BY <1>1, AllBitsMember
  <2>2. e \in AllBits(ks) <=>
          \E h \in DOMAIN gs : \E cmd \in ks[h].cmds : e \in cmd.bits
    BY <1>1, AllBitsMember
  <2> QED
    BY <1>1, <2>1, <2>2, Zenon
<1>3. AllBits(hs) = AllBits(ks) \cup UNION {cmd.bits : cmd \in A}
  BY <1>2
<1> QED
  BY <1>3 DEF hs, ks

\* The frames below the running one stay when it is replaced.
LEMMA SetTopType ==
    ASSUME stack \in Seq(Frame), stack # <<>>, NEW f \in Frame, SetTop(f)
    PROVE  stack' \in Seq(Frame)
  BY HeadTailProperties, ConcatProperties DEF SetTop

\* The frame on top of a stack is one of its frames.
LEMMA HeadFrame ==
    ASSUME stack \in Seq(Frame), stack # <<>>
    PROVE  Head(stack) \in Frame /\ Tail(stack) \in Seq(Frame)
  BY HeadTailProperties

\* The events of an argument.
LEMMA BitsType ==
    ASSUME NEW arg \in Argument, Bits(arg) # {}
    PROVE  Bits(arg) \in (SUBSET Event) \ {{}}
  BY AutocmdAssumption DEF Bits, Argument

-----------------------------------------------------------------------------
(* The steps.                                                              *)

\* A new group is empty and its name is new.
LEMMA CreateGroupStep ==
    ASSUME Inv, NEW name \in Name, CreateGroup(name)
    PROVE  Inv'
<1>1. /\ Live' = Live \cup {nextGroup} /\ nextGroup \in Nat
      /\ nextGroup \notin Live
      /\ \A g \in Live : groups'[g] = groups[g]
      /\ groups'[nextGroup] = [name |-> name, cmds |-> {}]
  BY DEF Inv, TypeOK, CreateGroup, Live
<1>2. TypeOK'
  <2>1. groups'[nextGroup] \in Group
    BY <1>1 DEF Group
  <2>2. \A g \in Live' : g < nextGroup'
    BY <1>1 DEF Inv, TypeOK, CreateGroup
  <2>3. groups' \in [Live' -> Group]
    <3>1. \A g \in Live : groups[g] \in Group
      BY DEF Inv, TypeOK
    <3>2. groups' = [g \in Live' |-> groups'[g]]
      BY DEF CreateGroup, Live
    <3>3. \A g \in Live' : groups'[g] \in Group
      BY <1>1, <2>1, <3>1
    <3> QED
      BY <3>2, <3>3
  <2>4. Live' \subseteq Nat
    BY <1>1 DEF Inv, TypeOK
  <2>5. /\ curgroup' \in Nat /\ nextGroup' \in Nat /\ ops' \in Nat
        /\ UNCHANGED <<usedbits, stack, undefined, nextCmd>>
    BY DEF Inv, TypeOK, CreateGroup, Typed
  <2> QED
    BY <2>2, <2>3, <2>4, <2>5 DEF Inv, TypeOK
<1>3. UsedBitsExact'
  <2>1. UNION {groups'[g].cmds : g \in DOMAIN groups'} =
          UNION {groups[g].cmds : g \in DOMAIN groups}
    BY <1>1 DEF Live
  <2>2. AllBits(groups') = AllBits(groups)
    BY <2>1, AllBitsEqual
  <2> QED
    BY <2>2 DEF Inv, UsedBitsExact, CreateGroup
<1>4. DefaultGroupStays'
  <2>1. \A g \in Live : groups[g].name # name
    BY DEF CreateGroup, Named
  <2>2. name # EndName
    BY AutocmdAssumption
  <2>3. Named(EndName)' = Named(EndName)
    BY <1>1, <2>2 DEF Named
  <2> QED
    BY <1>1, <2>1, <2>3 DEF Inv, DefaultGroupStays
<1> QED
  BY <1>2, <1>3, <1>4 DEF Inv

\* A deleted group is not the default group, and the used bits are rebuilt.
LEMMA DeleteGroupStep ==
    ASSUME Inv, NEW name \in Name, DeleteGroup(name)
    PROVE  Inv'
<1>1. PICK g \in Named(name) :
        /\ IF curgroup = g THEN \E h \in Live : IsFront(h) /\ curgroup' = h
                           ELSE UNCHANGED curgroup
        /\ groups' = [h \in Live \ {g} |-> groups[h]]
        /\ usedbits' = AllBits(groups')
  BY DEF DeleteGroup
<1>2. /\ Live' = Live \ {g}
      /\ \A h \in Live' : groups'[h] = groups[h]
      /\ g \in Live /\ groups[g].name = name
  BY <1>1 DEF Live, Named
<1>3. TypeOK'
  <2>1. /\ \A h \in Live' : h < nextGroup' /\ groups'[h] \in Group
        /\ groups' \in [Live' -> Group]
    BY <1>1, <1>2 DEF Inv, TypeOK, DeleteGroup
  <2>2. curgroup' \in Nat
    BY <1>1 DEF Inv, TypeOK
  <2>3. usedbits' \subseteq Event
    <3>1. \A h \in Live' : groups'[h].cmds \subseteq Cmd
      BY <2>1 DEF Group
    <3>2. \A cmd \in Cmd : cmd.bits \subseteq Event
      BY DEF Cmd
    <3> QED
      BY <1>1, <3>1, <3>2, AllBitsMember DEF Live
  <2>4. /\ ops' \in Nat /\ Live' \subseteq Nat
        /\ UNCHANGED <<stack, undefined, nextGroup, nextCmd>>
    BY <1>2 DEF Inv, TypeOK, DeleteGroup, Typed
  <2> QED
    BY <2>1, <2>2, <2>3, <2>4 DEF Inv, TypeOK
<1>4. UsedBitsExact'
  BY <1>1 DEF UsedBitsExact
<1>5. DefaultGroupStays'
  <2>1. name # EndName
    BY AutocmdAssumption
  <2>2. Named(EndName)' = Named(EndName)
    BY <1>2, <2>1 DEF Named
  <2> QED
    BY <1>2, <2>2 DEF Inv, DefaultGroupStays
<1> QED
  BY <1>3, <1>4, <1>5 DEF Inv

\* The bits of added commands are merged, those of removed ones are rebuilt.
LEMMA AddCmdStep ==
    ASSUME Inv, NEW arg \in Argument, NEW delete \in BOOLEAN, AddCmd(arg, delete)
    PROVE  Inv'
<1>1. PICK g \in Created :
        /\ IsTarget(arg, g)
        /\ IF g \notin Live THEN undefined' = TRUE /\ UNCHANGED <<groups, usedbits>>
           ELSE LET cmds == IF delete THEN Kept(groups[g].cmds, arg) ELSE groups[g].cmds
                    base == IF cmds # groups[g].cmds
                            THEN AllBits([groups EXCEPT ![g].cmds = cmds]) ELSE usedbits
                IN  /\ groups' = [groups EXCEPT ![g].cmds = cmds \cup Added(arg)]
                    /\ usedbits' = IF arg.add THEN base \cup Bits(arg) ELSE base
                    /\ UNCHANGED undefined
  BY DEF AddCmd
<1>2. /\ nextCmd' \in Nat /\ ops' \in Nat
      /\ UNCHANGED <<curgroup, stack, nextGroup>>
  BY DEF Inv, TypeOK, AddCmd, Typed
<1>3. CASE g \notin Live
  BY <1>1, <1>2, <1>3
  DEF Inv, TypeOK, UsedBitsExact, DefaultGroupStays, Named, Live
<1>4. CASE g \in Live
  <2> DEFINE cmds == IF delete THEN Kept(groups[g].cmds, arg) ELSE groups[g].cmds
             base == IF cmds # groups[g].cmds
                     THEN AllBits([groups EXCEPT ![g].cmds = cmds]) ELSE usedbits
  <2>1. /\ groups' = [groups EXCEPT ![g].cmds = cmds \cup Added(arg)]
        /\ usedbits' = IF arg.add THEN base \cup Bits(arg) ELSE base
        /\ UNCHANGED undefined
    BY <1>1, <1>4
  <2>2. \A h \in Live : groups[h] \in Group
    BY DEF Inv, TypeOK
  <2>3. cmds \subseteq Cmd
    BY <1>4, <2>2 DEF Group, Kept
  <2>4. Added(arg) \subseteq Cmd
    <3>1. Bits(arg) \in (SUBSET Event) \ {{}}
      BY BitsType DEF AddCmd
    <3>2. nextCmd \in Nat /\ arg.pattern \in Pattern
      BY DEF Inv, TypeOK, Argument
    <3> QED
      BY <3>1, <3>2 DEF Added, Cmd
  <2>5. base = AllBits([groups EXCEPT ![g].cmds = cmds])
    <3>1. CASE cmds = groups[g].cmds
      <4>1. [groups EXCEPT ![g].cmds = cmds] = groups
        <5>1. groups[g] = [groups[g] EXCEPT !.cmds = cmds]
          BY <1>4, <2>2, <3>1 DEF Group
        <5>2. groups = [h \in Live |-> groups[h]]
          BY DEF Inv, TypeOK
        <5> HIDE DEF cmds
        <5> QED
          BY <5>1, <5>2
      <4> QED
        BY <3>1, <4>1 DEF Inv, UsedBitsExact
    <3>2. CASE cmds # groups[g].cmds
      BY <3>2
    <3> QED
      BY <3>1, <3>2
  <2> HIDE DEF cmds, base
  <2>6. AllBits(groups') = base \cup UNION {cmd.bits : cmd \in Added(arg)}
    <3>1. \A h \in DOMAIN groups :
            groups[h] = [name |-> groups[h].name, cmds |-> groups[h].cmds]
      BY <2>2 DEF Group, Live
    <3>2. g \in DOMAIN groups
      BY <1>4 DEF Live
    <3>3. AllBits(WithCmds(groups, g, cmds \cup Added(arg))) =
            AllBits(WithCmds(groups, g, cmds))
              \cup UNION {cmd.bits : cmd \in Added(arg)}
      BY <3>1, <3>2, AllBitsAdd
    <3> QED
      BY <2>1, <2>5, <3>3 DEF WithCmds
  <2>7. UsedBitsExact'
    <3>1. CASE arg.add
      <4>1. UNION {cmd.bits : cmd \in Added(arg)} = Bits(arg)
        BY <3>1 DEF Added
      <4> QED
        BY <2>1, <2>6, <3>1, <4>1 DEF UsedBitsExact
    <3>2. CASE ~arg.add
      <4>1. UNION {cmd.bits : cmd \in Added(arg)} = {}
        BY <3>2 DEF Added
      <4> QED
        BY <2>1, <2>6, <3>2, <4>1 DEF UsedBitsExact
    <3> QED
      BY <3>1, <3>2
  <2>8. /\ Live' = Live
        /\ \A h \in Live : groups'[h].name = groups[h].name /\ groups'[h] \in Group
        /\ groups' \in [Live' -> Group]
    BY <1>4, <2>1, <2>2, <2>3, <2>4 DEF Live, Group
  <2>9. DefaultGroupStays'
    BY <2>8 DEF Inv, DefaultGroupStays, Named
  <2>10. usedbits' \subseteq Event
    <3>1. \A h \in Live' : groups'[h].cmds \subseteq Cmd
      BY <2>8 DEF Group
    <3>2. \A cmd \in Cmd : cmd.bits \subseteq Event
      BY DEF Cmd
    <3> QED
      BY <2>7, <3>1, <3>2, AllBitsMember DEF UsedBitsExact, Live
  <2>11. TypeOK'
    BY <1>2, <2>1, <2>8, <2>10 DEF Inv, TypeOK
  <2> QED
    BY <2>7, <2>9, <2>11 DEF Inv
<1> QED
  BY <1>3, <1>4

\* The steps of autocmd_run only read the groups.
LEMMA RunStep ==
    ASSUME Inv, Run \/ CmdDone \/ \E event \in Event, uri \in Uri : Fire(event, uri)
    PROVE  Inv'
<1>1. UNCHANGED <<groups, curgroup, usedbits, nextGroup, nextCmd>>
  BY DEF Run, TestCmd, NextLink, CmdDone, Fire
<1>2. ops' \in Nat /\ undefined' \in BOOLEAN
  <2>1. ops \in Nat /\ undefined \in BOOLEAN
    BY DEF Inv, TypeOK
  <2>2. CASE TestCmd \/ CmdDone
    BY <2>1, <2>2 DEF TestCmd, CmdDone
  <2>3. CASE NextLink
    <3>1. undefined' = TRUE \/ undefined' = undefined
      BY <2>3 DEF NextLink
    <3> QED
      BY <2>1, <2>3, <3>1 DEF NextLink
  <2>4. CASE \E event \in Event, uri \in Uri : Fire(event, uri)
    BY <2>1, <2>4 DEF Fire, Typed
  <2> QED
    BY <2>2, <2>3, <2>4 DEF Run
<1>3. stack \in Seq(Frame) /\ \A g \in Live : groups[g].cmds \subseteq Cmd
  BY DEF Inv, TypeOK, Group
<1>4. stack' \in Seq(Frame)
  <2>1. CASE TestCmd
    <3>1. stack # <<>> /\ Head(stack) \in Frame
      BY <1>3, <2>1, HeadFrame DEF TestCmd, Running
    <3>2. PICK cmd \in Head(stack).todo :
            SetTop([Head(stack) EXCEPT
                      !.todo = @ \ {cmd},
                      !.ran = IF Wanted(cmd, Head(stack)) THEN @ \cup {cmd.nr} ELSE @,
                      !.at = IF Wanted(cmd, Head(stack)) THEN "command" ELSE "test"])
      BY <2>1 DEF TestCmd
    <3>3. cmd.nr \in Nat
      BY <3>1 DEF Frame, Cmd
    <3>4. [Head(stack) EXCEPT
             !.todo = @ \ {cmd},
             !.ran = IF Wanted(cmd, Head(stack)) THEN @ \cup {cmd.nr} ELSE @,
             !.at = IF Wanted(cmd, Head(stack)) THEN "command" ELSE "test"] \in Frame
      BY <3>1, <3>3 DEF Frame
    <3> QED
      BY <1>3, <3>1, <3>2, <3>4, SetTopType
  <2>2. CASE NextLink
    <3>1. stack # <<>> /\ Head(stack) \in Frame /\ Tail(stack) \in Seq(Frame)
      BY <1>3, <2>2, HeadFrame DEF NextLink, Running
    <3>2. ASSUME NEW g \in Live,
                 SetTop([Head(stack) EXCEPT !.group = g, !.todo = groups[g].cmds])
          PROVE  stack' \in Seq(Frame)
      <4>1. g \in Nat /\ groups[g].cmds \subseteq Cmd
        BY <1>3 DEF Inv, TypeOK
      <4>2. [Head(stack) EXCEPT !.group = g, !.todo = groups[g].cmds] \in Frame
        BY <3>1, <4>1 DEF Frame
      <4> QED
        BY <1>3, <3>1, <3>2, <4>2, SetTopType
    <3> QED
      BY <1>3, <2>2, <3>1, <3>2 DEF NextLink
  <2>3. CASE CmdDone
    <3>1. stack # <<>> /\ Head(stack) \in Frame
      BY <1>3, <2>3, HeadFrame DEF CmdDone
    <3>2. [Head(stack) EXCEPT !.at = "test"] \in Frame
      BY <3>1 DEF Frame
    <3> QED
      BY <1>3, <2>3, <3>1, <3>2, SetTopType DEF CmdDone
  <2>4. ASSUME NEW event \in Event, NEW uri \in Uri, Fire(event, uri)
        PROVE  stack' \in Seq(Frame)
    <3>1. CASE event \notin usedbits
      BY <1>3, <2>4, <3>1 DEF Fire
    <3>2. CASE event \in usedbits
      <4> DEFINE due == {cmd.nr : cmd \in {d \in Registered : ForEvent(d, event, uri)}}
      <4>1. PICK g \in Live :
              stack' = <<[at |-> "test", event |-> event, uri |-> uri,
                          group |-> g, todo |-> groups[g].cmds, due |-> due,
                          ran |-> {}]>> \o stack
        BY <2>4, <3>2 DEF Fire
      <4>2. due \subseteq Nat
        BY <1>3 DEF Registered, Cmd
      <4> HIDE DEF due
      <4>3. g \in Nat /\ groups[g].cmds \subseteq Cmd
        BY <1>3 DEF Inv, TypeOK
      <4> DEFINE f == [at |-> "test", event |-> event, uri |-> uri,
                       group |-> g, todo |-> groups[g].cmds, due |-> due,
                       ran |-> {}]
      <4>4. f \in Frame
        BY <4>2, <4>3 DEF Frame
      <4>5. <<f>> \in Seq(Frame)
        BY <4>4
      <4> HIDE DEF f
      <4>6. <<f>> \o stack \in Seq(Frame)
        BY <1>3, <4>5, ConcatProperties
      <4> QED
        BY <4>1, <4>6 DEF f
    <3> QED
      BY <3>1, <3>2
  <2> QED
    BY <2>1, <2>2, <2>3, <2>4 DEF Run
<1>5. TypeOK'
  BY <1>1, <1>2, <1>4 DEF Inv, TypeOK, Live
<1> QED
  BY <1>1, <1>5 DEF Inv, UsedBitsExact, DefaultGroupStays, Named, Live

\* Every step preserves the invariant.
LEMMA InvNext == Inv /\ [Next]_vars => Inv'
<1> SUFFICES ASSUME Inv, [Next]_vars
             PROVE  Inv'
  OBVIOUS
<1>1. ASSUME NEW g \in Live, UNCHANGED <<groups, usedbits, stack, undefined, nextGroup, nextCmd>>,
             curgroup' = g, Typed
      PROVE  Inv'
  BY <1>1 DEF Inv, TypeOK, UsedBitsExact, DefaultGroupStays, Named, Live, Typed
<1>2. CASE SelectDefault
  BY <1>1, <1>2 DEF SelectDefault
<1>3. ASSUME NEW name \in Name, SelectGroup(name)
      PROVE  Inv'
  BY <1>1, <1>3 DEF SelectGroup, Named
<1>4. CASE ExCommand
  BY <1>2, <1>3, <1>4, CreateGroupStep, DeleteGroupStep, AddCmdStep DEF ExCommand
<1>5. CASE UNCHANGED vars
  BY <1>5 DEF vars, Inv, TypeOK, UsedBitsExact, DefaultGroupStays, Named, Live
<1> QED
  BY <1>4, <1>5, RunStep DEF Next

\* autocmd_init.
LEMMA InvInit == Init => Inv
<1> SUFFICES ASSUME Init
             PROVE  Inv
  OBVIOUS
<1>1. Live = {0} /\ groups[0] = [name |-> EndName, cmds |-> {}]
  BY DEF Init, Live
<1>2. groups \in [Live -> Group]
  BY <1>1 DEF Init, Group
<1>3. AllBits(groups) = {}
  BY <1>1, AllBitsMember DEF Live
<1>4. stack \in Seq(Frame)
  BY EmptySeq DEF Init
<1> QED
  BY <1>1, <1>2, <1>3, <1>4
  DEF Init, Inv, TypeOK, UsedBitsExact, DefaultGroupStays, Named

-----------------------------------------------------------------------------
(* What a run executes.  A number stands for one command of one group: so a  *)
(* frame knows of every command that is still registered whether it has been *)
(* reached, in whatever way groups and commands change meanwhile.            *)

\* Registered commands have numbers of their own.
Numbered(gs, n) ==
    \A g, h \in DOMAIN gs : \A c \in gs[g].cmds, d \in gs[h].cmds :
       c.nr < n /\ (c.nr = d.nr => g = h /\ c = d)

\* The commands of the copy are yet to be run; those that were run and are still
\* registered are in the groups so far; those that are due have been run or are
\* in the copy if their group is one of those so far.
FrameOK(f, gs, n) ==
    /\ \A c \in f.todo : c.nr < n /\ c.nr \notin f.ran
    /\ \A c, d \in f.todo : c.nr = d.nr => c = d
    /\ \A k \in f.due \cup f.ran : k < n
    /\ \A g \in DOMAIN gs : \A d \in gs[g].cmds :
         /\ \A c \in f.todo : c.nr = d.nr => c = d /\ g = f.group
         /\ d.nr \in f.due => /\ ForEvent(d, f.event, f.uri)
                              /\ g > f.group => d.nr \in f.ran
                              /\ g = f.group => d.nr \in f.ran \/ d \in f.todo
         /\ d.nr \in f.ran => g >= f.group

RunInv ==
    /\ Numbered(groups, nextCmd)
    /\ \A i \in 1 .. Len(stack) : FrameOK(stack[i], groups, nextCmd)

\* Groups and commands that come or go leave a frame as it was: new commands have
\* numbers no frame knows.
LEMMA FrameKept ==
    ASSUME NEW f \in Frame, NEW gs, NEW n \in Nat, FrameOK(f, gs, n),
           NEW hs, NEW m \in Nat, n <= m,
           \A g \in DOMAIN hs : \A d \in hs[g].cmds :
              (g \in DOMAIN gs /\ d \in gs[g].cmds) \/ d.nr = n
    PROVE  FrameOK(f, hs, m)
<1>1. /\ \A c \in f.todo : c.nr \in Nat /\ c.nr < n
      /\ \A k \in f.due \cup f.ran : k \in Nat /\ k < n
  BY DEF FrameOK, Frame, Cmd
<1>2. /\ \A c \in f.todo : c.nr < m /\ c.nr \notin f.ran
      /\ \A c, d \in f.todo : c.nr = d.nr => c = d
      /\ \A k \in f.due \cup f.ran : k < m
  BY <1>1 DEF FrameOK
<1>3. ASSUME NEW g \in DOMAIN hs, NEW d \in hs[g].cmds
      PROVE  /\ \A c \in f.todo : c.nr = d.nr => c = d /\ g = f.group
             /\ d.nr \in f.due => /\ ForEvent(d, f.event, f.uri)
                                  /\ g > f.group => d.nr \in f.ran
                                  /\ g = f.group => d.nr \in f.ran \/ d \in f.todo
             /\ d.nr \in f.ran => g >= f.group
  <2>1. CASE g \in DOMAIN gs /\ d \in gs[g].cmds
    BY <2>1 DEF FrameOK
  <2>2. CASE d.nr = n
    <3>1. d.nr \notin f.due /\ d.nr \notin f.ran /\ \A c \in f.todo : c.nr # d.nr
      BY <1>1, <2>2
    <3> QED
      BY <3>1
  <2> QED
    BY <2>1, <2>2
<1> QED
  BY <1>2, <1>3 DEF FrameOK

\* At most one command is new, and it has the next number.
LEMMA GroupsChange ==
    ASSUME TypeOK, RunInv, UNCHANGED stack, nextCmd' \in Nat, nextCmd <= nextCmd',
           NEW a, NEW b,
           \A g \in DOMAIN groups' : \A d \in groups'[g].cmds :
              \/ g \in DOMAIN groups /\ d \in groups[g].cmds
              \/ g = a /\ d = b /\ d.nr = nextCmd /\ nextCmd < nextCmd'
    PROVE  RunInv'
<1>1. nextCmd \in Nat
  BY DEF TypeOK
<1>2. \A g \in DOMAIN groups : \A c \in groups[g].cmds : c.nr \in Nat
  BY DEF TypeOK, Live, Group, Cmd
<1>3. Numbered(groups, nextCmd)'
  <2>1. \A g \in DOMAIN groups : \A c \in groups[g].cmds : c.nr < nextCmd
    BY DEF RunInv, Numbered
  <2>2. ASSUME NEW g \in DOMAIN groups', NEW h \in DOMAIN groups',
               NEW c \in groups'[g].cmds, NEW d \in groups'[h].cmds
        PROVE  c.nr < nextCmd' /\ (c.nr = d.nr => g = h /\ c = d)
    <3>1. CASE g \in DOMAIN groups /\ c \in groups[g].cmds
      <4>1. CASE h \in DOMAIN groups /\ d \in groups[h].cmds
        BY <1>1, <1>2, <3>1, <4>1 DEF RunInv, Numbered
      <4>2. CASE h = a /\ d = b /\ d.nr = nextCmd /\ nextCmd < nextCmd'
        BY <1>1, <1>2, <2>1, <3>1, <4>2
      <4> QED
        BY <4>1, <4>2
    <3>2. CASE g = a /\ c = b /\ c.nr = nextCmd /\ nextCmd < nextCmd'
      <4>1. CASE h \in DOMAIN groups /\ d \in groups[h].cmds
        BY <1>1, <1>2, <2>1, <3>2, <4>1
      <4>2. CASE h = a /\ d = b
        BY <3>2, <4>2
      <4> QED
        BY <4>1, <4>2
    <3> QED
      BY <3>1, <3>2
  <2> QED
    BY <2>2 DEF Numbered
<1>4. ASSUME NEW i \in 1 .. Len(stack)
      PROVE  FrameOK(stack[i], groups', nextCmd')
  <2>1. stack[i] \in Frame
    BY DEF TypeOK
  <2>2. FrameOK(stack[i], groups, nextCmd)
    BY DEF RunInv
  <2> HIDE DEF RunInv
  <2> QED
    BY <1>1, <2>1, <2>2, FrameKept
<1> QED
  BY <1>3, <1>4 DEF RunInv

\* The running frame goes on.
LEMMA TopChanges ==
    ASSUME TypeOK, RunInv, stack # <<>>, UNCHANGED <<groups, nextCmd>>,
           NEW f \in Frame, SetTop(f), FrameOK(f, groups, nextCmd)
    PROVE  RunInv'
<1>1. stack \in Seq(Frame)
  BY DEF TypeOK
<1>2. Tail(stack) \in Seq(Frame) /\ Len(Tail(stack)) = Len(stack) - 1
      /\ \A i \in 1 .. Len(Tail(stack)) : Tail(stack)[i] = stack[i + 1]
  BY <1>1, HeadTailProperties
<1>3. <<f>> \in Seq(Frame) /\ Len(<<f>>) = 1 /\ <<f>>[1] = f
  OBVIOUS
<1>4. /\ Len(stack') = Len(stack)
      /\ stack'[1] = f
      /\ \A i \in 2 .. Len(stack) : stack'[i] = stack[i]
  BY <1>1, <1>2, <1>3, ConcatProperties DEF SetTop
<1>5. ASSUME NEW i \in 1 .. Len(stack)
      PROVE  FrameOK(stack'[i], groups, nextCmd)
  <2>1. CASE i = 1
    BY <1>4, <2>1
  <2>2. CASE i # 1
    <3>1. i \in 2 .. Len(stack) /\ FrameOK(stack[i], groups, nextCmd)
      BY <1>1, <2>2 DEF RunInv
    <3> QED
      BY <1>4, <3>1
  <2> QED
    BY <2>1, <2>2
<1> QED
  BY <1>4, <1>5 DEF RunInv

\* Fire: the first group is looked at, and all that is due is in it or behind it.
LEMMA FireRuns ==
    ASSUME TypeOK, RunInv, NEW event \in Event, NEW uri \in Uri, Fire(event, uri)
    PROVE  RunInv'
<1>1. stack \in Seq(Frame) /\ UNCHANGED <<groups, nextCmd>>
  BY DEF TypeOK, Fire
<1>2. CASE event \notin usedbits
  BY <1>1, <1>2 DEF Fire, RunInv
<1>3. CASE event \in usedbits
  <2> DEFINE due == {cmd.nr : cmd \in {d \in Registered : ForEvent(d, event, uri)}}
  <2>1. PICK g \in Live :
          /\ IsFront(g)
          /\ stack' = <<[at |-> "test", event |-> event, uri |-> uri,
                         group |-> g, todo |-> groups[g].cmds, due |-> due,
                         ran |-> {}]>> \o stack
    BY <1>3 DEF Fire
  <2> DEFINE f == [at |-> "test", event |-> event, uri |-> uri,
                   group |-> g, todo |-> groups[g].cmds, due |-> due,
                   ran |-> {}]
  <2>2. \A h \in Live : groups[h].cmds \subseteq Cmd /\ h \in Nat
    BY DEF TypeOK, Group
  <2>3. due \subseteq Nat
    BY <2>2 DEF Registered, Cmd
  <2>4. \A k \in due : k < nextCmd
    BY DEF Registered, RunInv, Numbered, Live
  <2>5. ASSUME NEW h \in Live, NEW d \in groups[h].cmds, d.nr \in due
        PROVE  ForEvent(d, event, uri)
    <3>1. PICK c \in Registered : ForEvent(c, event, uri) /\ c.nr = d.nr
      BY <2>5
    <3>2. c = d
      BY <3>1 DEF Registered, RunInv, Numbered, Live
    <3> QED
      BY <3>1, <3>2
  <2>6. f \in Frame
    BY <2>2, <2>3 DEF Frame
  <2>7. /\ f.todo = groups[g].cmds /\ f.ran = {} /\ f.due = due /\ f.group = g
        /\ f.event = event /\ f.uri = uri
    OBVIOUS
  <2>8. stack' = <<f>> \o stack
    BY <2>1
  <2> HIDE DEF f, due
  <2>9. FrameOK(f, groups, nextCmd)
    <3>1. \A h \in Live : h <= g /\ h \in Nat
      BY <2>1, <2>2 DEF IsFront
    <3>2. /\ \A c \in f.todo : c.nr < nextCmd /\ c.nr \notin f.ran
          /\ \A c, d \in f.todo : c.nr = d.nr => c = d
          /\ \A k \in f.due \cup f.ran : k < nextCmd
      BY <2>4, <2>7 DEF RunInv, Numbered, Live
    <3>3. ASSUME NEW h \in DOMAIN groups, NEW d \in groups[h].cmds
          PROVE  /\ \A c \in f.todo : c.nr = d.nr => c = d /\ h = f.group
                 /\ d.nr \in f.due => /\ ForEvent(d, f.event, f.uri)
                                      /\ h > f.group => d.nr \in f.ran
                                      /\ h = f.group => d.nr \in f.ran \/ d \in f.todo
                 /\ d.nr \in f.ran => h >= f.group
      <4>1. \A c \in f.todo : c.nr = d.nr => c = d /\ h = f.group
        BY <2>7 DEF RunInv, Numbered, Live
      <4>2. h \in Live /\ ~(h > f.group) /\ f.ran = {}
        BY <2>2, <2>7, <3>1 DEF Live
      <4>3. h = f.group => d \in f.todo
        BY <2>7
      <4>4. d.nr \in f.due => ForEvent(d, f.event, f.uri)
        BY <2>5, <2>7, <4>2
      <4> QED
        BY <4>1, <4>2, <4>3, <4>4
    <3> QED
      BY <3>2, <3>3 DEF FrameOK
  <2>10. /\ Len(stack') = Len(stack) + 1 /\ stack'[1] = f
         /\ \A i \in 2 .. Len(stack) + 1 : stack'[i] = stack[i - 1]
    <3>1. <<f>> \in Seq(Frame) /\ Len(<<f>>) = 1 /\ <<f>>[1] = f
      BY <2>6
    <3> QED
      BY <1>1, <2>8, <3>1, ConcatProperties
  <2>11. ASSUME NEW i \in 1 .. Len(stack')
         PROVE  FrameOK(stack'[i], groups, nextCmd)
    <3>1. CASE i = 1
      BY <2>9, <2>10, <3>1
    <3>2. CASE i # 1
      <4>1. i \in 2 .. Len(stack) + 1 /\ i - 1 \in 1 .. Len(stack)
        BY <1>1, <2>10, <3>2
      <4>2. FrameOK(stack[i - 1], groups, nextCmd)
        BY <4>1 DEF RunInv
      <4> QED
        BY <2>10, <4>1, <4>2
    <3> QED
      BY <3>1, <3>2
  <2> QED
    BY <1>1, <2>11 DEF RunInv
<1> QED
  BY <1>2, <1>3

\* The running frame, and what is known of it.
LEMMA TopOK ==
    ASSUME TypeOK, RunInv, stack # <<>>
    PROVE  /\ Head(stack) \in Frame
           /\ FrameOK(Head(stack), groups, nextCmd)
           /\ \A h \in Live : groups[h].cmds \subseteq Cmd /\ h \in Nat
<1>1. stack \in Seq(Frame) /\ 1 \in 1 .. Len(stack)
  BY DEF TypeOK
<1>2. Head(stack) = stack[1]
  BY <1>1
<1> QED
  BY <1>1, <1>2 DEF TypeOK, RunInv, Group

\* TestCmd: the command that is skipped is not due.
LEMMA TestRuns ==
    ASSUME TypeOK, RunInv, TestCmd
    PROVE  RunInv'
<1> DEFINE f == Head(stack)
<1>1. PICK cmd \in f.todo :
        /\ IsFirst(cmd, f.todo)
        /\ SetTop([f EXCEPT
                     !.todo = @ \ {cmd},
                     !.ran = IF Wanted(cmd, f) THEN @ \cup {cmd.nr} ELSE @,
                     !.at = IF Wanted(cmd, f) THEN "command" ELSE "test"])
  BY DEF TestCmd
<1> DEFINE e == [f EXCEPT
                   !.todo = @ \ {cmd},
                   !.ran = IF Wanted(cmd, f) THEN @ \cup {cmd.nr} ELSE @,
                   !.at = IF Wanted(cmd, f) THEN "command" ELSE "test"]
<1>2. stack # <<>> /\ UNCHANGED <<groups, nextCmd>> /\ SetTop(e)
  BY <1>1 DEF TestCmd, Running
<1>3. f \in Frame /\ FrameOK(f, groups, nextCmd)
  BY <1>2, TopOK
<1>4. cmd.nr \in Nat /\ cmd.nr < nextCmd
  BY <1>3 DEF Frame, Cmd, FrameOK
<1>5. /\ e \in Frame
      /\ e.todo = f.todo \ {cmd} /\ e.due = f.due /\ e.group = f.group
      /\ e.event = f.event /\ e.uri = f.uri
      /\ e.ran = IF Wanted(cmd, f) THEN f.ran \cup {cmd.nr} ELSE f.ran
  BY <1>3, <1>4 DEF Frame
<1> HIDE DEF e, f
<1>6. /\ \A c \in e.todo : c.nr < nextCmd /\ c.nr \notin e.ran
      /\ \A c, d \in e.todo : c.nr = d.nr => c = d
      /\ \A k \in e.due \cup e.ran : k < nextCmd
  BY <1>3, <1>4, <1>5 DEF FrameOK
<1>7. ASSUME NEW g \in DOMAIN groups, NEW d \in groups[g].cmds
      PROVE  /\ \A c \in e.todo : c.nr = d.nr => c = d /\ g = e.group
             /\ d.nr \in e.due => /\ ForEvent(d, e.event, e.uri)
                                  /\ g > e.group => d.nr \in e.ran
                                  /\ g = e.group => d.nr \in e.ran \/ d \in e.todo
             /\ d.nr \in e.ran => g >= e.group
  <2>1. g \in Nat /\ f.group \in Nat
    BY <1>2, <1>3, TopOK DEF Live, Frame
  <2>2. /\ \A c \in f.todo : c.nr = d.nr => c = d /\ g = f.group
        /\ d.nr \in f.due => /\ ForEvent(d, f.event, f.uri)
                             /\ g > f.group => d.nr \in f.ran
                             /\ g = f.group => d.nr \in f.ran \/ d \in f.todo
        /\ d.nr \in f.ran => g >= f.group
    BY <1>3 DEF FrameOK
  <2>3. d = cmd /\ d.nr \in f.due => Wanted(cmd, f)
    BY <2>2 DEF Wanted
  <2>4. d.nr \in e.ran => d.nr \in f.ran \/ d.nr = cmd.nr
    BY <1>5
  <2> QED
    BY <1>1, <1>5, <2>1, <2>2, <2>3, <2>4
<1>8. FrameOK(e, groups, nextCmd)
  BY <1>6, <1>7 DEF FrameOK
<1> QED
  BY <1>2, <1>5, <1>8, TopChanges

\* NextLink: the next group has nothing that was run, or ends the run.
LEMMA LinkRuns ==
    ASSUME TypeOK, RunInv, NextLink
    PROVE  RunInv'
<1> DEFINE f == Head(stack)
<1>1. stack \in Seq(Frame) /\ stack # <<>> /\ f.todo = {} /\ UNCHANGED <<groups, nextCmd>>
  BY DEF TypeOK, NextLink, Running
<1>2. f \in Frame /\ FrameOK(f, groups, nextCmd)
  BY <1>1, TopOK
<1>3. CASE UNCHANGED stack
  BY <1>1, <1>3 DEF RunInv
<1>4. CASE stack' = Tail(stack)
  <2>1. Len(Tail(stack)) = Len(stack) - 1
        /\ \A i \in 1 .. Len(Tail(stack)) : Tail(stack)[i] = stack[i + 1]
    BY <1>1, HeadTailProperties
  <2>2. ASSUME NEW i \in 1 .. Len(stack')
        PROVE  FrameOK(stack'[i], groups, nextCmd)
    <3>1. i + 1 \in 1 .. Len(stack) /\ stack'[i] = stack[i + 1]
      BY <1>1, <1>4, <2>1
    <3> QED
      BY <3>1 DEF RunInv
  <2> QED
    BY <1>1, <2>2 DEF RunInv
<1>5. ASSUME NEW g \in Live, f.group \in Live, IsNext(f.group, g),
             SetTop([f EXCEPT !.group = g, !.todo = groups[g].cmds])
      PROVE  RunInv'
  <2> DEFINE e == [f EXCEPT !.group = g, !.todo = groups[g].cmds]
  <2>1. /\ \A h \in Live : groups[h].cmds \subseteq Cmd /\ h \in Nat
        /\ f.group \in Nat
    BY <1>1, <1>2, TopOK DEF Frame
  <2>2. /\ e \in Frame /\ SetTop(e)
        /\ e.todo = groups[g].cmds /\ e.due = f.due /\ e.group = g
        /\ e.event = f.event /\ e.uri = f.uri /\ e.ran = f.ran
    BY <1>2, <1>5, <2>1 DEF Frame
  <2> HIDE DEF e
  <2>3. g < f.group /\ \A h \in Live : h < f.group => h <= g
    BY <1>5 DEF IsNext
  <2>4. ASSUME NEW h \in Live, NEW d \in groups[h].cmds
        PROVE  /\ d.nr \in f.due => /\ ForEvent(d, f.event, f.uri)
                                    /\ h >= f.group => d.nr \in f.ran
               /\ d.nr \in f.ran => h >= f.group
    <3>1. h \in DOMAIN groups /\ h \in Nat
      BY <2>1 DEF Live
    <3> QED
      BY <1>1, <1>2, <2>1, <3>1 DEF FrameOK
  <2>5. /\ \A c \in e.todo : c.nr < nextCmd /\ c.nr \notin e.ran
        /\ \A c, d \in e.todo : c.nr = d.nr => c = d
        /\ \A k \in e.due \cup e.ran : k < nextCmd
    <3>1. \A c \in groups[g].cmds : c.nr < nextCmd
      BY DEF RunInv, Numbered, Live
    <3>2. \A c \in groups[g].cmds : c.nr \notin f.ran
      BY <2>1, <2>3, <2>4
    <3>3. \A c, d \in groups[g].cmds : c.nr = d.nr => c = d
      BY DEF RunInv, Numbered, Live
    <3>4. \A k \in f.due \cup f.ran : k < nextCmd
      BY <1>2 DEF FrameOK
    <3> QED
      BY <2>2, <3>1, <3>2, <3>3, <3>4
  <2>6. ASSUME NEW h \in DOMAIN groups, NEW d \in groups[h].cmds
        PROVE  /\ \A c \in e.todo : c.nr = d.nr => c = d /\ h = e.group
               /\ d.nr \in e.due => /\ ForEvent(d, e.event, e.uri)
                                    /\ h > e.group => d.nr \in e.ran
                                    /\ h = e.group => d.nr \in e.ran \/ d \in e.todo
               /\ d.nr \in e.ran => h >= e.group
    <3>1. h \in Live /\ h \in Nat /\ g \in Nat
      BY <2>1 DEF Live
    <3>2. \A c \in e.todo : c.nr = d.nr => c = d /\ h = g
      BY <2>2 DEF RunInv, Numbered, Live
    <3>3. h > g => h >= f.group
      BY <2>1, <2>3, <3>1
    <3>4. h >= f.group => h >= g
      BY <2>1, <2>3, <3>1
    <3> QED
      BY <2>2, <2>4, <3>1, <3>2, <3>3, <3>4
  <2>7. FrameOK(e, groups, nextCmd)
    BY <2>5, <2>6 DEF FrameOK
  <2> QED
    BY <1>1, <2>2, <2>7, TopChanges
<1> QED
  BY <1>3, <1>4, <1>5 DEF NextLink

\* CmdDone: the run goes on.
LEMMA DoneRuns ==
    ASSUME TypeOK, RunInv, CmdDone
    PROVE  RunInv'
<1> DEFINE f == Head(stack)
           e == [f EXCEPT !.at = "test"]
<1>1. stack # <<>> /\ SetTop(e) /\ UNCHANGED <<groups, nextCmd>>
  BY DEF CmdDone
<1>2. f \in Frame /\ FrameOK(f, groups, nextCmd)
  BY <1>1, TopOK
<1>3. /\ e \in Frame
      /\ e.todo = f.todo /\ e.due = f.due /\ e.group = f.group
      /\ e.event = f.event /\ e.uri = f.uri /\ e.ran = f.ran
  BY <1>2 DEF Frame
<1> HIDE DEF e, f
<1>4. FrameOK(e, groups, nextCmd)
  BY <1>2, <1>3 DEF FrameOK
<1> QED
  BY <1>1, <1>3, <1>4, TopChanges

\* The commands of :augroup and :autocmd, which a command of a run may be.
LEMMA CommandRuns ==
    ASSUME TypeOK, RunInv, ExCommand
    PROVE  RunInv'
<1>0. nextCmd \in Nat /\ \A g \in Live : groups[g] \in Group
  BY DEF TypeOK
<1>1. CASE UNCHANGED <<groups, stack, nextCmd>>
  BY <1>1 DEF RunInv
<1>2. ASSUME NEW name \in Name, CreateGroup(name) PROVE RunInv'
  <2>1. /\ \A g \in DOMAIN groups' : \A d \in groups'[g].cmds :
              g \in DOMAIN groups /\ d \in groups[g].cmds
        /\ UNCHANGED <<stack, nextCmd>>
    BY <1>2 DEF CreateGroup, Live
  <2> QED
    BY <1>0, <2>1, GroupsChange
<1>3. ASSUME NEW name \in Name, DeleteGroup(name) PROVE RunInv'
  <2>1. /\ \A g \in DOMAIN groups' : \A d \in groups'[g].cmds :
              g \in DOMAIN groups /\ d \in groups[g].cmds
        /\ UNCHANGED <<stack, nextCmd>>
    BY <1>3 DEF DeleteGroup, Live
  <2> QED
    BY <1>0, <2>1, GroupsChange
<1>4. ASSUME NEW arg \in Argument, NEW delete \in BOOLEAN, AddCmd(arg, delete)
      PROVE  RunInv'
  <2> DEFINE b == [nr |-> nextCmd, bits |-> Bits(arg), pattern |-> arg.pattern]
  <2>1. /\ UNCHANGED stack
        /\ nextCmd' = IF arg.add THEN nextCmd + 1 ELSE nextCmd
    BY <1>4 DEF AddCmd
  <2>2. PICK a \in Created :
          IF a \notin Live THEN UNCHANGED groups
          ELSE \E cmds \in SUBSET groups[a].cmds :
                 groups' = [groups EXCEPT ![a].cmds = cmds \cup Added(arg)]
    <3>1. PICK g \in Created :
            /\ IsTarget(arg, g)
            /\ IF g \notin Live THEN undefined' = TRUE /\ UNCHANGED <<groups, usedbits>>
               ELSE LET cmds == IF delete THEN Kept(groups[g].cmds, arg)
                                ELSE groups[g].cmds
                        base == IF cmds # groups[g].cmds
                                THEN AllBits([groups EXCEPT ![g].cmds = cmds])
                                ELSE usedbits
                    IN  /\ groups' = [groups EXCEPT ![g].cmds = cmds \cup Added(arg)]
                        /\ usedbits' = IF arg.add THEN base \cup Bits(arg) ELSE base
                        /\ UNCHANGED undefined
      BY <1>4 DEF AddCmd
    <3>2. (IF delete THEN Kept(groups[g].cmds, arg) ELSE groups[g].cmds)
            \in SUBSET groups[g].cmds
      BY DEF Kept
    <3> QED
      BY <3>1, <3>2
  <2>3. \A d \in Added(arg) : arg.add /\ d = b
    BY DEF Added
  <2>4. b.nr = nextCmd
    OBVIOUS
  <2> HIDE DEF b
  <2>5. \A g \in DOMAIN groups' : \A d \in groups'[g].cmds :
           \/ g \in DOMAIN groups /\ d \in groups[g].cmds
           \/ g = a /\ d \in Added(arg)
    <3>1. CASE a \notin Live
      BY <2>2, <3>1
    <3>2. CASE a \in Live
      <4>1. PICK cmds \in SUBSET groups[a].cmds :
              groups' = [groups EXCEPT ![a].cmds = cmds \cup Added(arg)]
        BY <2>2, <3>2
      <4>2. DOMAIN groups' = DOMAIN groups /\ a \in DOMAIN groups
        BY <3>2, <4>1 DEF Live
      <4>3. groups'[a].cmds = cmds \cup Added(arg)
        BY <1>0, <3>2, <4>1, <4>2 DEF Group
      <4>4. \A g \in DOMAIN groups : g # a => groups'[g] = groups[g]
        BY <4>1
      <4> QED
        BY <4>2, <4>3, <4>4
    <3> QED
      BY <3>1, <3>2
  <2>6. \A g \in DOMAIN groups' : \A d \in groups'[g].cmds :
           \/ g \in DOMAIN groups /\ d \in groups[g].cmds
           \/ g = a /\ d = b /\ d.nr = nextCmd /\ nextCmd < nextCmd'
    <3>1. arg.add => nextCmd < nextCmd'
      BY <1>0, <2>1
    <3> QED
      BY <2>3, <2>4, <2>5, <3>1
  <2>7. nextCmd' \in Nat /\ nextCmd <= nextCmd'
    BY <1>0, <2>1
  <2> QED
    BY <2>1, <2>6, <2>7, GroupsChange
<1> QED
  BY <1>1, <1>2, <1>3, <1>4 DEF ExCommand, SelectDefault, SelectGroup

\* Every step keeps what is known of the runs.
LEMMA RunInvNext == TypeOK /\ RunInv /\ [Next]_vars => RunInv'
<1> SUFFICES ASSUME TypeOK, RunInv, [Next]_vars
             PROVE  RunInv'
  OBVIOUS
<1>1. CASE UNCHANGED vars
  BY <1>1 DEF vars, RunInv
<1> QED
  BY <1>1, FireRuns, TestRuns, LinkRuns, DoneRuns, CommandRuns DEF Next, Run

\* Nothing runs at first.
LEMMA RunInvInit == Init => RunInv
  BY DEF Init, RunInv, Numbered

-----------------------------------------------------------------------------
(* Theorems.                                                               *)

\* The invariant holds for every set of events, names and patterns and for every
\* matching relation.
THEOREM Invariance == Spec => []Inv
  BY InvInit, InvNext, PTL DEF Spec

\* The groups, the frames and the counters keep their types.
THEOREM TypeCorrect == Spec => []TypeOK
<1>1. Inv => TypeOK
  BY DEF Inv
<1> QED
  BY <1>1, Invariance, PTL

\* The used bits are exactly the events that a registered command waits for, so
\* the shortcut of autocmd_run never drops an event.
THEOREM UsedBitsAreExact == Spec => []UsedBitsExact
<1>1. Inv => UsedBitsExact
  BY DEF Inv
<1> QED
  BY <1>1, Invariance, PTL

\* The group list always holds the default group and no name twice.
THEOREM DefaultGroupIsKept == Spec => []DefaultGroupStays
<1>1. Inv => DefaultGroupStays
  BY DEF Inv
<1> QED
  BY <1>1, Invariance, PTL

AllDueStep ==
    NextLink /\ Len(stack') < Len(stack) =>
       \A cmd \in Registered : cmd.nr \in Head(stack).due => cmd.nr \in Head(stack).ran

OnceStep ==
    \A cmd \in Registered :
       TestCmd /\ cmd \in Head(stack).todo /\ Wanted(cmd, Head(stack))
       /\ IsFirst(cmd, Head(stack).todo) => cmd.nr \notin Head(stack).ran

\* A call of autocmd_run executes each command that was registered for the event
\* when it fired, and still is when the call ends, once and no more often: whatever
\* the commands of the run, and of the runs inside it, do to the groups.
THEOREM EachDueRunsOnce == Spec => RunsDueOnce
<1>1. ASSUME TypeOK, RunInv, [Next]_vars
      PROVE  AllDueStep
  <2> SUFFICES ASSUME NextLink, Len(stack') < Len(stack), NEW cmd \in Registered,
                      cmd.nr \in Head(stack).due
               PROVE  cmd.nr \in Head(stack).ran
    BY DEF AllDueStep
  <2> DEFINE f == Head(stack)
  <2>1. stack \in Seq(Frame) /\ stack # <<>> /\ f.todo = {}
    BY <1>1 DEF TypeOK, NextLink, Running
  <2>2. f \in Frame /\ FrameOK(f, groups, nextCmd)
        /\ \A h \in Live : groups[h].cmds \subseteq Cmd /\ h \in Nat
    BY <1>1, <2>1, TopOK
  <2>3. f.group \in Live /\ IsLast(f.group)
    <3>1. stack' # stack
      OBVIOUS
    <3>2. ASSUME NEW e, SetTop(e) PROVE FALSE
      <4>1. Tail(stack) \in Seq(Frame) /\ Len(Tail(stack)) = Len(stack) - 1
        BY <2>1, HeadTailProperties
      <4>2. Len(stack') = Len(stack)
        <5>1. \E S : <<e>> \in Seq(S) /\ Tail(stack) \in Seq(S)
          <6>1. <<e>> \in Seq(Frame \cup {e}) /\ Tail(stack) \in Seq(Frame \cup {e})
            BY <4>1
          <6> QED
            BY <6>1
        <5> QED
          BY <2>1, <3>2, <4>1, <5>1, ConcatProperties DEF SetTop
      <4>3. Len(stack) \in Nat
        BY <2>1
      <4> QED
        BY <4>2, <4>3
    <3> QED
      BY <3>1, <3>2 DEF NextLink
  <2>4. PICK g \in Live : cmd \in groups[g].cmds
    BY DEF Registered
  <2>5. cmd.nr \in f.due
    OBVIOUS
  <2> HIDE DEF f
  <2>6. g >= f.group /\ g \in Nat /\ f.group \in Nat
    BY <2>2, <2>3 DEF IsLast
  <2>7. /\ g > f.group => cmd.nr \in f.ran
        /\ g = f.group => cmd.nr \in f.ran \/ cmd \in f.todo
    BY <2>2, <2>4, <2>5 DEF FrameOK, Live
  <2>8. cmd.nr \in f.ran
    BY <2>1, <2>6, <2>7
  <2> QED
    BY <2>8 DEF f
<1>2. ASSUME TypeOK, RunInv, [Next]_vars
      PROVE  OnceStep
  <2>1. ASSUME TestCmd, NEW cmd \in Head(stack).todo
        PROVE  cmd.nr \notin Head(stack).ran
    BY <1>2, <2>1, TopOK DEF TestCmd, Running, FrameOK
  <2> QED
    BY <2>1 DEF OnceStep
<1>3. Spec => []RunInv
  BY RunInvInit, RunInvNext, TypeCorrect, PTL DEF Spec
<1>4. TypeOK /\ RunInv /\ [Next]_vars => [AllDueStep]_vars /\ [OnceStep]_vars
  BY <1>1, <1>2
<1>5. RunsAllDue <=> [][AllDueStep]_vars
  BY PTL DEF RunsAllDue, AllDueStep
<1>6. RunsOnce <=> [][OnceStep]_vars
  BY PTL DEF RunsOnce, OnceStep
<1> QED
  BY <1>3, <1>4, <1>5, <1>6, TypeCorrect, PTL DEF Spec, RunsDueOnce
=============================================================================
