---------------------------- MODULE SentryCore ----------------------------
(***************************************************************************)
(* logger/sentry.go: zap cores that report log entries to Sentry, with the *)
(* fields their loggers inherited.                                         *)
(*                                                                         *)
(* Cores share memory: a core is a slice of an array, With makes a clone   *)
(* from it, and Write appends the fields of the entry.  Writes of several  *)
(* goroutines also share the one hub, whose stack of scopes they push to   *)
(* and pop from.  Go's append and Sentry's hub are external.               *)
(***************************************************************************)
EXTENDS Naturals, Sequences, FiniteSets

CONSTANTS Core,      \* cores, each with the field its With may add
          Root,      \* the core newSentryCore makes
          Writer,    \* goroutines that log, each with the field of its entry
          RootCap,   \* the capacity newSentryCore asks for (20 in the code)
          MaxCap,    \* bound on the capacity of an array
          None       \* no field, no context, the scope of the program

\* What is assumed of the constants (SideBySide has it evaluated).
CoreAssumption ==
  /\ Root \in Core /\ None \notin Core \cup Writer /\ Core \cap Writer = {}
  /\ RootCap \in Nat /\ MaxCap \in Nat /\ RootCap <= MaxCap

VARIABLES
  heap,     \* heap[a]: the array made by core or goroutine a
  core,     \* the slice of a core, and (history) the fields it was made with
  write,    \* where the Write of a goroutine is, its core and its slice
  scopes,   \* the scopes on the hub's stack, with whose they are and logs_fields
  sent,     \* sent[w]: the fields the last event of w was sent with
  overlaps  \* history: whether the Write of w met another one

vars == <<heap, core, write, scopes, sent, overlaps>>

Field == Core \cup Writer
Fields == UNION {[1..n -> Field] : n \in 0..MaxCap}
Array == UNION {[1..n -> Field \cup {None}] : n \in 0..MaxCap}
NoCore == [arr |-> None, len |-> 0, cap |-> 0, inherits |-> <<>>]

TypeOK ==
  /\ heap \in [Field -> Array]
  /\ core \in [Core -> [arr : Core \cup {None}, len : 0..MaxCap,
                        cap : 0..MaxCap, inherits : Fields]]
  /\ write \in [Writer ->
       [pc : {"idle", "collect", "set", "capture", "pop"},
        core : Core, arr : Field, len : 0..MaxCap, fields : Fields]]
  /\ scopes \in Seq([of : Writer \cup {None}, fields : Fields])
  /\ sent \in [Writer -> Fields]
  /\ overlaps \in [Writer -> BOOLEAN]

Idle(w) == [pc |-> "idle", core |-> Root, arr |-> w, len |-> 0, fields |-> <<>>]

Init ==
  /\ heap = [a \in Field |-> IF a = Root THEN [i \in 1..RootCap |-> None] ELSE <<>>]
  /\ core = [c \in Core |-> IF c = Root THEN [arr |-> Root, len |-> 0,
                                              cap |-> RootCap, inherits |-> <<>>]
                            ELSE NoCore]
  /\ write = [w \in Writer |-> Idle(w)]
  /\ scopes = <<>>
  /\ sent = [w \in Writer |-> <<>>]
  /\ overlaps = [w \in Writer |-> FALSE]

--------------------------------------------------------------------------
(* append                                                                  *)

\* The elements of the slice of length n of array a.
Elements(a, n) == SubSeq(heap[a], 1, n)

\* append(s, f) for s = array a up to n with capacity cap: in place when
\* there is room, else in the new array b.
InPlace(a, n, f) == [heap EXCEPT ![a][n + 1] = f]

Grown(a, n, f, b) ==
  {[heap EXCEPT ![b] = [i \in 1..cap |-> IF i <= n THEN heap[a][i]
                                         ELSE IF i = n + 1 THEN f ELSE None]] :
     cap \in (n + 1)..MaxCap}

--------------------------------------------------------------------------
(* With                                                                    *)

Made(d) == core[d].arr # None

\* A clone without fields of its own shares the array, without spare room.
WithNothing(c, d) ==
  /\ Made(c) /\ ~Made(d)
  /\ core' = [core EXCEPT ![d] = [core[c] EXCEPT !.cap = core[c].len]]
  /\ UNCHANGED <<heap, write, scopes, sent, overlaps>>

\* Defect: append(c.fields, fields...), with the capacity of the parent.
WithSharedRoom(c, d) ==
  LET n == core[c].len
      a == IF n < core[c].cap THEN core[c].arr ELSE d
  IN  /\ Made(c) /\ ~Made(d)
      /\ n < MaxCap
      /\ IF a = d THEN heap' \in Grown(core[c].arr, n, d, d)
                  ELSE heap' = InPlace(a, n, d)
      /\ core' = [core EXCEPT ![d] =
                    [arr |-> a, len |-> n + 1, cap |-> Len(heap'[a]),
                     inherits |-> Append(core[c].inherits, d)]]
      /\ UNCHANGED <<write, scopes, sent, overlaps>>

\* The full slice expression leaves append no room: it makes a new array.
With(c, d) ==
  LET n == core[c].len
  IN  /\ Made(c) /\ ~Made(d)
      /\ n < MaxCap
      /\ heap' \in Grown(core[c].arr, n, d, d)
      /\ core' = [core EXCEPT ![d] =
                    [arr |-> d, len |-> n + 1, cap |-> Len(heap'[d]),
                     inherits |-> Append(core[c].inherits, d)]]
      /\ UNCHANGED <<write, scopes, sent, overlaps>>

--------------------------------------------------------------------------
(* Write, in the steps at which another goroutine may come in between      *)

Goto(w, p) == write' = [write EXCEPT ![w].pc = p]

\* A core that Check added for the level of an entry is to write it.  The
\* fields of the entry are appended to those of the core: in the room its
\* array has left, which is shared, or in an array of the goroutine.
AppendFields(w, c) ==
  LET n == core[c].len
      fits == n < core[c].cap
      busy == {v \in Writer : write[v].pc # "idle"}
  IN  /\ write[w].pc = "idle"
      /\ Made(c)
      /\ n < MaxCap
      /\ heap' = IF fits THEN InPlace(core[c].arr, n, w)
                 ELSE [heap EXCEPT ![w] = Append(Elements(core[c].arr, n), w)]
      /\ write' = [write EXCEPT ![w] =
                     [pc |-> "collect", core |-> c, len |-> n + 1,
                      arr |-> IF fits THEN core[c].arr ELSE w, fields |-> <<>>]]
      /\ overlaps' = [v \in Writer |->
                        IF v = w THEN busy # {} ELSE overlaps[v] \/ v \in busy]
      /\ UNCHANGED <<core, scopes, sent>>

\* What an event captured now is sent with: the context of the top scope.
TopContext == IF scopes = <<>> THEN <<>> ELSE scopes[Len(scopes)].fields

\* The slice is read into a map, and WithScope pushes a copy of the top scope.
Collect(w) ==
  /\ write[w].pc = "collect"
  /\ write' = [write EXCEPT ![w].pc = "set",
                 ![w].fields = Elements(write[w].arr, write[w].len)]
  /\ scopes' = Append(scopes, [of |-> w, fields |-> TopContext])
  /\ UNCHANGED <<heap, core, sent, overlaps>>

\* The map is the context of the scope of w, if that is still on the stack.
SetContext(w) ==
  /\ write[w].pc = "set"
  /\ scopes' = [i \in DOMAIN scopes |->
                  IF scopes[i].of = w
                  THEN [scopes[i] EXCEPT !.fields = write[w].fields]
                  ELSE scopes[i]]
  /\ Goto(w, "capture")
  /\ UNCHANGED <<heap, core, sent, overlaps>>

CaptureEvent(w) ==
  /\ write[w].pc = "capture"
  /\ sent' = [sent EXCEPT ![w] = TopContext]
  /\ Goto(w, "pop")
  /\ UNCHANGED <<heap, core, scopes, overlaps>>

\* WithScope pops the top scope, whoever pushed it.  What nobody reads once
\* the Write of w has returned is forgotten.
PopScope(w) ==
  /\ write[w].pc = "pop"
  /\ scopes' = [i \in 1..(Len(scopes) - 1) |->
                  IF scopes[i].of = w THEN [scopes[i] EXCEPT !.of = None]
                  ELSE scopes[i]]
  /\ write' = [write EXCEPT ![w] = Idle(w)]
  /\ heap' = [heap EXCEPT ![w] = <<>>]
  /\ sent' = [sent EXCEPT ![w] = <<>>]
  /\ overlaps' = [overlaps EXCEPT ![w] = FALSE]
  /\ UNCHANGED core

Next ==
  \/ \E c, d \in Core : With(c, d) \/ WithNothing(c, d)
  \/ \E w \in Writer :
       \/ \E c \in Core : AppendFields(w, c)
       \/ Collect(w) \/ SetContext(w) \/ CaptureEvent(w) \/ PopScope(w)

Spec == Init /\ [][Next]_vars

--------------------------------------------------------------------------
(* Properties                                                              *)

\* No With and no Write of another core changes what a core inherited.
InheritedFieldsKept ==
  \A c \in Core : Made(c) => Elements(core[c].arr, core[c].len) = core[c].inherits

\* Alone, a Write sends the fields of its logger and of its entry; and once
\* no Write is under way the hub has the scopes it had before.
ReportsOwnFields ==
  /\ \A w \in Writer :
       (write[w].pc = "pop" /\ ~overlaps[w])
         => sent[w] = Append(core[write[w].core].inherits, w)
  /\ (\A w \in Writer : write[w].pc = "idle") => scopes = <<>>

(* A logger keeps the fields it inherited, whatever clones are made from   *)
(* it and whatever is written at the same time, although arrays are shared *)
(* (With, line 40; Write, line 77), and an event carries the fields of its *)
(* own logger and entry.  Not so the events of Writes that overlap: they   *)
(* may be sent with the entry fields, or the whole context, of the other.  *)
FieldsStayWithTheirLogger == InheritedFieldsKept /\ ReportsOwnFields

--------------------------------------------------------------------------
(* The inductive invariant behind them.                                     *)

\* A core's slice lies in an array made by a core; cores that share one share
\* all they have of it.
CoreInv ==
  \A c \in Core : Made(c) =>
    /\ Made(core[c].arr)
    /\ core[c].len <= Len(heap[core[c].arr]) /\ core[c].cap <= Len(heap[core[c].arr])
    /\ \A d \in Core : core[d].arr = core[c].arr => core[d].len = core[c].len

\* A Write is for a core, in an array of that core or of its own.
WriteInv ==
  \A w \in Writer : write[w].pc # "idle" =>
    /\ Made(write[w].core)
    /\ write[w].arr = w \/ (write[w].arr \in Core /\ Made(write[w].arr))
    /\ write[w].pc = "collect" =>
         /\ write[w].len <= Len(heap[write[w].arr])
         /\ \A i \in 1..write[w].len : heap[write[w].arr][i] \in Field

\* The stack has one scope for every Write between its push and its pop.
Pushed == {w \in Writer : write[w].pc \in {"set", "capture", "pop"}}

ScopeInv == IsFiniteSet(Pushed) /\ Len(scopes) = Cardinality(Pushed)

\* A Write that met no other has its own fields at every step.
AloneInv ==
  \A w \in Writer :
    LET own == Append(core[write[w].core].inherits, w)
    IN  (write[w].pc # "idle" /\ ~overlaps[w]) =>
          /\ \A v \in Writer \ {w} : write[v].pc = "idle"
          /\ write[w].pc = "collect" => Elements(write[w].arr, write[w].len) = own
          /\ write[w].pc = "set" => write[w].fields = own /\ scopes[1].of = w
          /\ write[w].pc = "capture" => scopes[1].fields = own
          /\ write[w].pc = "pop" => sent[w] = own

IInv == TypeOK /\ CoreInv /\ InheritedFieldsKept /\ WriteInv /\ ScopeInv /\ AloneInv
==========================================================================
