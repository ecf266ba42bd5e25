----------------------- MODULE SharedStringsInvariant -----------------------
(***************************************************************************)
(* The inductive invariant of SharedStrings.  The counters alone are not   *)
(* enough: a call also relies on objects it holds no count of, its operand *)
(* and its destination, and what keeps those is that no other call may be  *)
(* writing them.                                                           *)
(***************************************************************************)
EXTENDS SharedStrings

\* No object that a call writes is used by a call of another task.
Discipline ==
  \A t, u \in Task : t # u /\ call[t].self # Null =>
    call[t].self \notin {call[u].self, call[u].item}

\* What a call holds and refers to at each of its steps.
IdleShape(c) ==
  c.pc \in {"idle", "raised"} => c.self = Null /\ c.item = Null

PublishShape(c) ==
  c.pc = "publish" =>
    c.self = Null /\ c.item \in Var /\ c.from = data[c.item] /\ c.from \in Object

WriterShape(c) ==
  /\ c.pc \in {"edit", "copy", "drop", "free", "bind"} => c.self \in Var
  /\ c.item \in Var => c.item = c.self \/ data[c.item] # Null

EditShape(c) ==
  c.pc = "edit" =>
    /\ c.new \in Object /\ counter[c.new] = 1
    /\ data[c.self] = c.new /\ c.from = c.new

CopyShape(c) ==
  /\ c.pc \in {"copy", "raised"} => c.new \in live
  /\ c.pc = "copy" =>
       /\ counter[c.new] = 1
       /\ c.from = data[c.self] \/ (c.item \in Var /\ c.from = data[c.item])
       /\ c.old \in {Null, data[c.self]}

ReleaseShape(c) ==
  /\ c.pc \in {"drop", "free"} =>
       /\ c.old \in live
       /\ data[c.self] # Null => data[c.self] = c.new
  /\ c.pc = "free" => counter[c.old] = 0
  /\ c.pc = "bind" => data[c.self] = Null

TargetShape(c) ==
  c.pc \in {"drop", "free", "bind"} /\ data[c.self] = Null =>
    \/ c.new \in {Empty, Null}
    \/ c.item \in Var /\ c.item # c.self /\ c.new = data[c.item]

CallShape(c) ==
  /\ IdleShape(c) /\ PublishShape(c) /\ WriterShape(c) /\ EditShape(c)
  /\ CopyShape(c) /\ ReleaseShape(c) /\ TargetShape(c)

\* The part of the source's text that an edit replaces or keeps is there, and
\* Append (Code) puts one character behind the text of an object in scope.
EditFits(c) ==
  c.pc \in {"edit", "copy"} =>
    /\ c.edit.first + c.edit.size <= Len(Text(c.from))
    /\ c.edit.kind = "append" =>
         /\ c.item = Null /\ c.from # Null
         /\ c.edit.first = Len(Text(c.from)) /\ c.edit.size = 0
         /\ \E ch \in Char : c.edit.code = <<ch>>

LiveData == \A v \in Var : data[v] \in live \cup {Empty, Null}

\* A segment is deallocated by one call only.
FreeOnce ==
  \A t, u \in Task :
    t # u /\ call[t].pc = "free" /\ call[u].pc = "free" => call[t].old # call[u].old

CallShapes == \A t \in Task : CallShape(call[t])
EditsFit   == \A t \in Task : EditFits(call[t])

\* TypeOK and CounterCoversHolders, made inductive: what protects the segments
\* that a running call of the library relies on without counting them.
IInv ==
  /\ TypeOK
  /\ Discipline
  /\ CallShapes
  /\ EditsFit
  /\ LiveData
  /\ FreeOnce
  /\ CounterCoversHolders

-----------------------------------------------------------------------------
(***************************************************************************)
(* What the segments hold, given IInv.                                     *)
(***************************************************************************)

\* The text that a call stores, from its source, its operand and its edit.
Outcome(from, w, e) ==
  IF e.kind = "slice" THEN Kept(Text(from), e)
  ELSE Spliced(Text(from), e, IF w = Null THEN e.code ELSE Text(data[w]))

\* A call indexes the text that is there, and has room for the text it will
\* store into a segment that, when it is a new one, nobody has indexed.
SegmentShape(c) ==
  /\ c.pc = "publish" => c.map = value[c.from]
  /\ c.pc \in {"edit", "copy"} =>
       Len(Outcome(c.from, c.item, c.edit)) \in 1 .. capacity[c.new]
  /\ c.pc = "copy" => indexMap[c.new] = Null

\* IndexMapIsCurrent and RoomForTerminator, made inductive.
SegmentsInv ==
  /\ IndexMapIsCurrent
  /\ RoomForTerminator
  /\ \A t \in Task : SegmentShape(call[t])

\* An object that has a segment has a text: what is empty is Shared_Empty.
NotEmpty == \A v \in Var : data[v] \in Object => value[data[v]] # <<>>

\* A call that copies gives up what its object had, if that was counted.
ExactShape(c) ==
  c.pc = "copy" => c.old = data[c.self] \/ (c.old = Null /\ data[c.self] \notin Object)

\* NoLeak, made inductive.
ExactInv ==
  /\ NoLeak
  /\ NotEmpty
  /\ \A t \in Task : ExactShape(call[t])
=============================================================================
