-------------------------------- MODULE PlSql --------------------------------
(***************************************************************************)
(* The PL/SQL interpreter (plsql/exec.rs) running one anonymous block of a *)
(* session, as a machine over an explicit call stack.  The program is not  *)
(* fixed: at every statement position any statement may come next, and the *)
(* outcome of what it evaluates is open, so the behaviours are those of    *)
(* all programs within the bounds.                                         *)
(*                                                                         *)
(* `stack` holds the Rust calls in progress, outermost first: block and    *)
(* its handler, loops, invoke_inner ("call") and the block of an EXECUTE   *)
(* IMMEDIATE ("dynamic").  `interp` holds the Interps, each with its       *)
(* frames and the exceptions being handled; calls and dynamic blocks have  *)
(* one of their own.  `flow` is what statement() returned last: a Flow, or *)
(* an exception in flight; "enter" comes before a routine's block.         *)
(*                                                                         *)
(* Of all names, one user-defined exception E and one cursor per frame are *)
(* modelled; every block may declare its own.  E is "no" where it is not   *)
(* declared, "user", or "init" with PRAGMA EXCEPTION_INIT's code 1403.     *)
(***************************************************************************)
EXTENDS Integers, Sequences, FiniteSets

CONSTANTS
  None,
  Blocks,         (* the declarations and EXCEPTION sections of blocks      *)
  Loops,          (* the labels and variables of loops                      *)
  Before,         (* the changes uncommitted when the block starts          *)
  MAX_CALL_DEPTH,
  MaxStack,       (* bound: the nesting of blocks, loops and calls          *)
  MaxLog          (* bound: the uncommitted changes                         *)

ASSUME BlocksAssumption ==
  Blocks \subseteq [e : {"no", "user", "init"}, cursor : {"no", "closed"},
                    handlers : Seq({"OTHERS", "NO_DATA_FOUND", "E"})]
ASSUME LoopsAssumption == Loops \subseteq [label : {None, "L"}, framed : BOOLEAN]
ASSUME NatAssumption == Before \in Nat /\ MAX_CALL_DEPTH \in Nat

VARIABLES
  stack, interp, flow,
  depth,          (* Env.depth                                              *)
  log, moved,     (* uncommitted changes; COMMIT or ROLLBACK since the start *)
  mark,           (* the savepoint of the anonymous block                   *)
  done,           (* "no", "ok" or "failed"                                 *)
  target          (* history: which block ought to catch what is in flight  *)

vars == <<stack, interp, flow, depth, log, moved, mark, done, target>>

-----------------------------------------------------------------------------
(* As in SequencesExt, whose other definitions would only burden the proofs. *)
Last(s) == s[Len(s)]
Front(s) == SubSeq(s, 1, Len(s) - 1)

Frame(e, cursor) == [e |-> e, cursor |-> cursor]
PlainFrame == Frame("no", "no")
Interp(host, frames) == [host |-> host, frames |-> frames, handling |-> << >>]
Exc(code, user) == [code |-> code, user |-> user]
Other == Exc("other", FALSE)      (* any code no handler of the model names *)
Normal == [k |-> "normal", label |-> None, exc |-> None]
Enter == [Normal EXCEPT !.k = "enter"]
Leave(k, label) == [Normal EXCEPT !.k = k, !.label = label]
InFlight(exc) == [Normal EXCEPT !.k = "raise", !.exc = exc]

(* An entry of the stack.  `e` and `exc` repeat what the frame and the      *)
(* handling stack hold; only the properties look at them.                   *)
Entry(k) == [k |-> k, handlers |-> << >>, label |-> None, framed |-> FALSE,
             function |-> FALSE, sql |-> FALSE, e |-> "no", exc |-> None]

Init ==
  /\ stack = << >>
  /\ interp = <<Interp("session", << >>)>>
  /\ flow = Enter
  /\ depth = 0
  /\ log = Before
  /\ mark = log
  /\ moved = FALSE
  /\ done = "no"
  /\ target = 0

-----------------------------------------------------------------------------
Top == Last(stack)
Self == Last(interp)
SetSelf(x) == interp' = Front(interp) \o <<x>>
Pushed(frame) == [Self EXCEPT !.frames = Append(@, frame)]
Popped == [Self EXCEPT !.frames = Front(@)]

(* Name lookup in the frames of the current Interp, innermost first.        *)
Declaring(frames, field) ==
  LET found == {i \in DOMAIN frames : frames[i][field] # "no"} IN
  IF found = {} THEN 0 ELSE CHOOSE i \in found : \A j \in found : j <= i

(* Mutant: the outermost declaration of a name wins. *)
FindFirstE(frames) ==
  LET found == {i \in DOMAIN frames : frames[i].e # "no"} IN
  IF found = {} THEN "no" ELSE frames[CHOOSE i \in found : \A j \in found : i <= j].e

FindE(frames) ==
  LET i == Declaring(frames, "e") IN IF i = 0 THEN "no" ELSE frames[i].e

(* matches: OTHERS, a user-defined exception by its code or its name, or a  *)
(* predefined one by its code.                                              *)
MatchesAs(declared, name, exc) ==
  CASE name = "OTHERS" -> TRUE
    [] name = "NO_DATA_FOUND" -> exc.code = "1403"
    [] OTHER -> CASE declared = "init" -> exc.code = "1403"
                  [] declared = "user" -> exc.user
                  [] OTHER -> FALSE
matches(name, exc) == MatchesAs(FindE(Self.frames), name, exc)

(* raise *)
Raised(declared) ==
  CASE declared = "user" -> Exc("6510", TRUE)
    [] declared = "init" -> Exc("1403", TRUE)
    [] OTHER -> Other                                              (* PLS-00201 *)

(* An exception that leaves a function called from SQL is an OraError: it   *)
(* has lost its name.                                                       *)
Anonymous(exc) == [exc EXCEPT !.user = FALSE]

(* History: the block that ought to catch exc, by lexical scope: the        *)
(* innermost whose body is running and one of whose handlers matches, with  *)
(* E as the nearest enclosing declaration of the same routine has it.       *)
Scope(i) ==
  LET own == {j \in 1..i : /\ stack[j].e # "no"
                           /\ \A m \in (j + 1)..i : stack[m].k \notin {"call", "dynamic"}}
  IN  IF own = {} THEN "no" ELSE stack[CHOOSE j \in own : \A m \in own : m <= j].e
Passed(i, exc) ==
  IF \E m \in (i + 1)..Len(stack) : stack[m].sql THEN Anonymous(exc) ELSE exc
Catcher(exc) ==
  LET able == {i \in DOMAIN stack :
                 /\ stack[i].k = "block"
                 /\ \E h \in DOMAIN stack[i].handlers :
                      MatchesAs(Scope(i), stack[i].handlers[h], Passed(i, exc))}
  IN  IF able = {} THEN 0 ELSE CHOOSE i \in able : \A j \in able : j <= i

Throw(exc) == flow' = InFlight(exc) /\ target' = Catcher(exc)

-----------------------------------------------------------------------------
(* Statements.  At a statement position the top of the stack is a body.     *)
AtStatement ==
  done = "no" /\ flow.k = "normal" /\ stack # << >>
  /\ Top.k \in {"block", "handler", "loop"}
Deeper == Len(stack) < MaxStack

(* block and declare_all: a declaration that fails raises outside of the    *)
(* block, whose frame is gone.  Also the block of a routine.                *)
EnterBlock ==
  /\ AtStatement \/ flow.k = "enter"
  /\ Deeper
  /\ \/ /\ \E b \in Blocks :
             /\ stack' = Append(stack, [Entry("block") EXCEPT
                            !.handlers = b.handlers, !.framed = TRUE, !.e = b.e])
             /\ SetSelf(Pushed(Frame(b.e, b.cursor)))
        /\ flow' = Normal
        /\ UNCHANGED target
     \/ Throw(Other) /\ UNCHANGED <<stack, interp>>
  /\ UNCHANGED <<depth, log, moved, mark, done>>

(* Assignment, IF, CASE, SELECT INTO, a built-in: an expression, conversion *)
(* or query fails.  When it succeeds nothing modelled here changes.         *)
Fails ==
  /\ AtStatement
  /\ \E exc \in {Exc("1403", FALSE), Other} : Throw(exc)
  /\ UNCHANGED <<stack, interp, depth, log, moved, mark, done>>

RaiseNamed ==
  /\ AtStatement
  /\ Throw(Raised(FindE(Self.frames)))
  /\ UNCHANGED <<stack, interp, depth, log, moved, mark, done>>

(* RAISE without a name: the exception being handled in this Interp.        *)
Reraise ==
  /\ AtStatement
  /\ Throw(IF Self.handling = << >> THEN Other ELSE Last(Self.handling))
  /\ UNCHANGED <<stack, interp, depth, log, moved, mark, done>>

(* Mutant: a function called from a query may change data. *)
MayChangeAlways == TRUE

(* Session executes any statement, QueryHost none but queries.              *)
MayChange == Self.host = "session"

(* DML, COMMIT and ROLLBACK, as statements or by EXECUTE IMMEDIATE.  A      *)
(* failing COMMIT has lost the transaction.                                 *)
Change ==
  /\ AtStatement
  /\ IF ~MayChange THEN Throw(Other) /\ UNCHANGED <<log, moved>>
     ELSE \/ log < MaxLog /\ log' = log + 1 /\ UNCHANGED <<moved, flow, target>>
          \/ log' = 0 /\ moved' = TRUE /\ UNCHANGED <<flow, target>>
          \/ log > 0 /\ log' = 0 /\ moved' = TRUE /\ Throw(Other)
  /\ UNCHANGED <<stack, interp, depth, mark, done>>

(* OPEN, FETCH and CLOSE of the cursor the name stands for.                 *)
Cursor ==
  LET i == Declaring(Self.frames, "cursor")
      state == Self.frames[i].cursor
      set(x) == SetSelf([Self EXCEPT !.frames[i].cursor = x]) /\ UNCHANGED <<flow, target>>
      fail == Throw(Other) /\ UNCHANGED interp
  IN
  /\ AtStatement
  /\ \/ i = 0 /\ fail                                             (* PLS-00201 *)
     \/ i # 0 /\ state = "closed" /\ (set("open") \/ fail)        (* ORA-01001 *)
     \/ i # 0 /\ state = "open" /\ (set("closed") \/ fail)        (* ORA-06511 *)
  /\ UNCHANGED <<stack, depth, log, moved, mark, done>>

(* LOOP, WHILE and the two FORs, which have a frame for their variable; a   *)
(* loop that does not run at all changes nothing.                           *)
EnterLoop ==
  /\ AtStatement /\ Deeper
  /\ \E l \in Loops :
       /\ stack' = Append(stack, [Entry("loop") EXCEPT !.label = l.label, !.framed = l.framed])
       /\ IF l.framed THEN SetSelf(Pushed(PlainFrame)) ELSE UNCHANGED interp
  /\ UNCHANGED <<flow, depth, log, moved, mark, done, target>>

(* EXIT, CONTINUE and RETURN *)
Jump ==
  /\ AtStatement
  /\ \/ \E k \in {"exit", "continue"}, label \in {None, "L"} : flow' = Leave(k, label)
     \/ flow' = Leave("return", None)
  /\ UNCHANGED <<stack, interp, depth, log, moved, mark, done, target>>

(* call and invoke, of a procedure or a function, from PL/SQL or, for a     *)
(* function, from a query.  An argument that fails to convert has been      *)
(* counted and uncounted when it raises.                                    *)
Call ==
  /\ AtStatement
  /\ \/ /\ depth >= MAX_CALL_DEPTH
        /\ Throw(Other)                                            (* ORA-00036 *)
        /\ UNCHANGED <<stack, interp, depth>>
     \/ /\ depth < MAX_CALL_DEPTH /\ Deeper
        /\ \E function, sql \in BOOLEAN :
             /\ sql => function
             /\ stack' = Append(stack, [Entry("call") EXCEPT !.function = function, !.sql = sql])
             /\ interp' = Append(interp, Interp(IF sql THEN "query" ELSE Self.host,
                                                <<PlainFrame>>))
        /\ depth' = depth + 1
        /\ flow' = Enter
        /\ UNCHANGED target
  /\ UNCHANGED <<log, moved, mark, done>>

(* EXECUTE IMMEDIATE of a block: an Interp that sees only its binds.        *)
Dynamic ==
  /\ AtStatement /\ Deeper
  /\ stack' = Append(stack, Entry("dynamic"))
  /\ interp' = Append(interp, Interp(Self.host, << >>))
  /\ flow' = Enter
  /\ UNCHANGED <<depth, log, moved, mark, done, target>>

-----------------------------------------------------------------------------
(* The ends of bodies, and what passes through them.                        *)

(* Mutant: a handler that raises leaves its exception on the stack. *)
WithoutBodyUnlessRaised ==
  IF Top.k = "handler" /\ flow.k # "raise"
  THEN [Popped EXCEPT !.handling = Front(@)]
  ELSE IF Top.framed THEN Popped ELSE Self

WithoutBody ==
  IF Top.k = "handler" THEN [Popped EXCEPT !.handling = Front(@)]
  ELSE IF Top.framed THEN Popped ELSE Self

(* loop_iteration: whether EXIT or CONTINUE is for the loop on top.         *)
Mine == flow.label = None \/ flow.label = Top.label

(* The body on top is over: its statements are through (a loop goes on or   *)
(* is done, which its condition decides), or a flow leaves it.  Going on    *)
(* with a loop changes nothing.                                             *)
LeaveBody ==
  /\ done = "no" /\ stack # << >>
  /\ Top.k \in {"block", "handler", "loop"}
  /\ flow.k \in {"normal", "exit", "continue", "return"}
  /\ ~(Top.k = "loop" /\ flow.k = "continue" /\ Mine)
  /\ stack' = Front(stack)
  /\ SetSelf(WithoutBody)
  /\ flow' = IF Top.k = "loop" /\ flow.k = "exit" /\ Mine THEN Normal ELSE flow
  /\ UNCHANGED <<depth, log, moved, mark, done, target>>

NextTurn ==
  /\ done = "no" /\ stack # << >>
  /\ Top.k = "loop" /\ flow.k = "continue" /\ Mine
  /\ flow' = Normal
  /\ UNCHANGED <<stack, interp, depth, log, moved, mark, done, target>>

(* handle: the first handler that matches runs in the block's frame; no     *)
(* handler of the block is tried again for what this one raises.            *)
Catches == Top.k = "block" /\ \E h \in DOMAIN Top.handlers : matches(Top.handlers[h], flow.exc)
Catch ==
  /\ done = "no" /\ stack # << >> /\ flow.k = "raise"
  /\ Catches
  /\ stack' = Front(stack) \o <<[Top EXCEPT !.k = "handler", !.exc = flow.exc,
                                              !.handlers = << >>]>>
  /\ SetSelf([Self EXCEPT !.handling = Append(@, flow.exc)])
  /\ flow' = Normal
  /\ target' = 0
  /\ UNCHANGED <<depth, log, moved, mark, done>>

Unwind ==
  /\ done = "no" /\ stack # << >> /\ flow.k = "raise"
  /\ Top.k \in {"block", "handler", "loop"} /\ ~Catches
  /\ stack' = Front(stack)
  /\ SetSelf(WithoutBody)
  /\ UNCHANGED <<flow, depth, log, moved, mark, done, target>>

(* The end of a routine: a function has to have returned a value, any other *)
(* flow is lost.  The end of a dynamic block: any flow is lost.             *)
EndInterp ==
  LET raised == flow.k = "raise" IN
  /\ done = "no" /\ stack # << >>
  /\ Top.k \in {"call", "dynamic"} /\ flow.k # "enter"
  /\ stack' = Front(stack)
  /\ interp' = Front(interp)
  /\ depth' = IF Top.k = "call" THEN depth - 1 ELSE depth
  /\ CASE raised ->
            /\ flow' = InFlight(IF Top.sql THEN Anonymous(flow.exc) ELSE flow.exc)
            /\ UNCHANGED target
       [] ~raised /\ Top.function /\ flow.k # "return" -> Throw(Other)    (* ORA-06503 *)
       [] OTHER -> flow' = Normal /\ UNCHANGED target
  /\ UNCHANGED <<log, moved, mark, done>>

(* Mutant: what was marked is kept though the block committed. *)
UndoneAsMarked == IF mark < log THEN mark ELSE log

(* Session::block: rollback_to the savepoint if the block failed.           *)
Undone == LET keep == IF moved THEN 0 ELSE mark IN IF keep < log THEN keep ELSE log
End ==
  /\ done = "no" /\ stack = << >> /\ flow.k # "enter"
  /\ done' = IF flow.k = "raise" THEN "failed" ELSE "ok"
  /\ log' = IF flow.k = "raise" THEN Undone ELSE log
  /\ UNCHANGED <<stack, interp, flow, depth, moved, mark, target>>

Next ==
  \/ EnterBlock \/ Fails \/ RaiseNamed \/ Reraise \/ Change \/ Cursor
  \/ EnterLoop \/ Jump \/ Call \/ Dynamic
  \/ LeaveBody \/ NextTurn \/ Catch \/ Unwind \/ EndInterp \/ End

Spec == Init /\ [][Next]_vars

-----------------------------------------------------------------------------
(* Properties *)

Calls == {i \in DOMAIN stack : stack[i].k = "call"}
Openers == {i \in DOMAIN stack : stack[i].k \in {"call", "dynamic"}}
Segment(n) == {i \in DOMAIN stack : Cardinality({j \in Openers : j <= i}) = n - 1}

(* Every way out of a block, loop, handler, routine or dynamic block, by    *)
(* its end, a jump or an exception, takes back exactly what its start put   *)
(* on the frames, the handling stack and Env.depth (exec.rs block, handle,  *)
(* invoke, statement); a call is never deeper than MAX_CALL_DEPTH.          *)
StacksMatchControl ==
  /\ Len(interp) = Cardinality(Openers) + 1
  /\ depth = Cardinality(Calls) /\ depth <= MAX_CALL_DEPTH
  /\ \A n \in DOMAIN interp :
       /\ Len(interp[n].frames) =
            Cardinality({i \in Segment(n) : stack[i].framed \/ stack[i].k = "call"})
       /\ interp[n].handling =
            [h \in 1..Cardinality({i \in Segment(n) : stack[i].k = "handler"}) |->
               stack[CHOOSE i \in Segment(n) :
                       /\ stack[i].k = "handler"
                       /\ Cardinality({j \in Segment(n) : j <= i /\ stack[j].k = "handler"}) = h].exc]

(* An exception runs a handler of the innermost block that lexically        *)
(* encloses, or dynamically calls, the place where it was raised, is in its *)
(* body (not in its declarations or its own handlers), and names it; and    *)
(* fails the anonymous block only if there is none (exec.rs handle,         *)
(* matches, block_in_frame).                                                *)
InnermostHandlerRuns ==
  [][/\ Catch => target = Len(stack)
     /\ End /\ flow.k = "raise" => target = 0
     /\ Unwind => target < Len(stack)]_vars

(* While a function called from a query runs, nothing changes the data or   *)
(* ends the transaction, whatever the function calls or executes (exec.rs   *)
(* QueryHost).                                                              *)
QueriesChangeNothing ==
  [][(\E i \in DOMAIN stack : stack[i].sql) => UNCHANGED <<log, moved>>]_vars

(* A block that fails leaves the changes made before it, or none if it      *)
(* committed or rolled back on the way, and never more; handled exceptions  *)
(* undo nothing (session.rs block, rollback_to; exec.rs handle).            *)
FailedBlockUndone ==
  /\ done = "failed" => log = (IF moved THEN 0 ELSE mark)
  /\ done # "failed" /\ ~moved => log >= mark
=============================================================================
