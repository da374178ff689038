-------------------------------- MODULE Task --------------------------------
(***************************************************************************)
(* include/coasio/task.hpp: the coroutine frames of a root task and of the *)
(* tasks it creates, drops and awaits, the control that passes between     *)
(* them, and the exceptions that do.  The leaves of the tree are the       *)
(* awaits of AsyncOp.                                                      *)
(*                                                                         *)
(* The body of a task is whatever a program may write.  Only one frame of  *)
(* a root runs or is suspended in a leaf, its top; the others wait along   *)
(* continuation_.  A frame's name is used once.                            *)
(***************************************************************************)
EXTENDS AsyncOp

CONSTANTS
    Children,    \* frames of tasks that are not roots
    MaxSteps,    \* bound: the leaves awaited and exceptions thrown by a program
    NoFrame

ASSUME TaskAssumption ==
    /\ Tasks \intersect Children = {}
    /\ NoFrame \notin Tasks \union Children
    /\ MaxSteps \in Nat

Frames == Tasks \union Children      \* the frame of a root is named by the root

VARIABLES
    frame,        \* frame[f]: where the coroutine is
    continuation, \* continuation[f]: continuation_
    holder,       \* holder[f]: the frame whose local variable is the task object of f
    owning,       \* owning[f]: owning_scope_, by the root whose scope it is
    exception,    \* the frames with an exception_
    top,          \* top[t]: the frame of root t that has control
    flow,         \* flow[t]: what that frame does
    sent,         \* sent[t]: the root_outcome of t
    uncaught,     \* history: the roots with an exception on its way
    spent         \* spent[t]: how many of its MaxSteps the program of t has taken

links == <<continuation, holder, owning>>
control == <<top, flow, sent, uncaught>>
taskVars == <<frame, links, exception, control, spent>>

TaskInit ==
    /\ Init
    /\ frame = [f \in Frames |-> IF f \in Tasks THEN "active" ELSE "none"]
    /\ continuation = [f \in Frames |-> NoFrame]
    /\ holder = [f \in Frames |-> NoFrame]
    /\ owning = [f \in Frames |-> IF f \in Tasks THEN f ELSE NoFrame]
    /\ exception = {}
    /\ top = [t \in Tasks |-> t]
    /\ flow = [t \in Tasks |-> "body"]
    /\ sent = [t \in Tasks |-> "nothing"]
    /\ uncaught = {}
    /\ spent = [t \in Tasks |-> 0]

Runs(t, what) == at[t] = "body" /\ flow[t] = what
Flows(t, what) == flow' = [flow EXCEPT ![t] = what]
Spends(t) == spent[t] < MaxSteps /\ spent' = [spent EXCEPT ![t] = @ + 1]
Locals(t) == {c \in Children : holder[c] = top[t]}

-----------------------------------------------------------------------------
(* The body of the top frame.                                              *)

(* A task is called: its frame stops at initial_suspend().                 *)
Create(t, c) ==
    /\ Runs(t, "body")
    /\ frame[c] = "none"
    /\ frame' = [frame EXCEPT ![c] = "initial"]
    /\ holder' = [holder EXCEPT ![c] = top[t]]
    /\ UNCHANGED <<asyncVars, continuation, owning, exception, control, spent>>

(* A task that nobody awaits is destroyed or assigned to.                  *)
Drop(t, c) ==
    /\ Runs(t, "body")
    /\ c \in Locals(t)
    /\ frame' = [frame EXCEPT ![c] = "destroyed"]
    /\ holder' = [holder EXCEPT ![c] = NoFrame]
    /\ UNCHANGED <<asyncVars, continuation, owning, exception, control, spent>>

NotInherited(t) == NoFrame        \* a mutant of Inherited: await_transform() forgets the scope

Inherited(t) == owning[top[t]]

(* co_await std::move(child): await_transform() hands the scope down, the  *)
(* awaiter takes the frame, and control goes straight to it. *)
Call(t, c) ==
    /\ Runs(t, "body")
    /\ c \in Locals(t)
    /\ owning' = [owning EXCEPT ![c] = Inherited(t)]
    /\ holder' = [holder EXCEPT ![c] = NoFrame]
    /\ continuation' = [continuation EXCEPT ![c] = top[t]]
    /\ frame' = [frame EXCEPT ![c] = "active"]
    /\ top' = [top EXCEPT ![t] = c]
    /\ UNCHANGED <<asyncVars, exception, flow, sent, uncaught, spent>>

(* co_await of a leaf.                                                     *)
Leaf(t, k) ==
    /\ Runs(t, "body")
    /\ Spends(t)
    /\ Begin(t, k)
    /\ UNCHANGED <<frame, links, exception, control>>

Throw(t) ==
    /\ Runs(t, "body")
    /\ Spends(t)
    /\ Flows(t, "throwing")
    /\ uncaught' = uncaught \union {t}
    /\ UNCHANGED <<asyncVars, frame, links, exception, top, sent>>

Catch(t) ==
    /\ Runs(t, "throwing")
    /\ Flows(t, "body")
    /\ uncaught' = uncaught \ {t}
    /\ UNCHANGED <<asyncVars, frame, links, exception, top, sent, spent>>

(* The body is left and its locals, tasks among them, are destroyed.       *)
Leave(t) ==
    /\ frame' = [f \in Frames |-> IF f = top[t] THEN "final"
                                  ELSE IF f \in Locals(t) THEN "destroyed" ELSE frame[f]]
    /\ holder' = [f \in Frames |-> IF f \in Locals(t) THEN NoFrame ELSE holder[f]]
    /\ Flows(t, "final")
    /\ UNCHANGED <<asyncVars, continuation, owning, top, sent, uncaught, spent>>

(* co_return: return_value() or return_void()                              *)
Return(t) == Runs(t, "body") /\ Leave(t) /\ UNCHANGED exception

(* unhandled_exception()                                                   *)
Unhandled(t) == Runs(t, "throwing") /\ Leave(t) /\ exception' = exception \union {top[t]}

-----------------------------------------------------------------------------
(* final_suspend()                                                         *)

(* A child that was awaited transfers control to its caller ...            *)
Transfer(t) ==
    /\ Runs(t, "final")
    /\ top[t] # t
    /\ top' = [top EXCEPT ![t] = continuation[@]]
    /\ Flows(t, "returning")
    /\ UNCHANGED <<asyncVars, frame, links, exception, sent, uncaught, spent>>

Swallowed(c) == "body"            \* a mutant of Resumption: the exception is not rethrown

Resumption(c) == IF c \in exception THEN "throwing" ELSE "body"

(* ... which takes the result or rethrows and destroys the child's frame.  *)
AwaitResume(t) ==
    /\ Runs(t, "returning")
    /\ \E c \in Children :
           /\ frame[c] = "final"
           /\ continuation[c] = top[t]
           /\ frame' = [frame EXCEPT ![c] = "destroyed"]
           /\ Flows(t, Resumption(c))
    /\ UNCHANGED <<asyncVars, links, exception, top, sent, uncaught, spent>>

(* ... and a root, which is detached, sends its outcome and is destroyed.  *)
Finish(t) ==
    /\ Runs(t, "final")
    /\ top[t] = t
    /\ sent' = [sent EXCEPT ![t] = IF t \in exception THEN "exception" ELSE "value"]
    /\ frame' = [frame EXCEPT ![t] = "destroyed"]
    /\ End(t)
    /\ UNCHANGED <<links, exception, top, flow, uncaught, spent>>

-----------------------------------------------------------------------------
FreeBody(t) ==
    \/ \E c \in Children : Create(t, c) \/ Drop(t, c) \/ Call(t, c)
    \/ \E k \in Used : Leaf(t, k)
    \/ Throw(t) \/ Return(t)

ControlStep(t) == Catch(t) \/ Unhandled(t) \/ Transfer(t) \/ AwaitResume(t) \/ Finish(t)

Awaiting(t) == Around(t) /\ UNCHANGED taskVars

TaskNext == \E t \in Tasks : FreeBody(t) \/ ControlStep(t) \/ Awaiting(t)

TaskSpec == TaskInit /\ [][TaskNext]_<<asyncVars, taskVars>>

-----------------------------------------------------------------------------
(* The frames that control returns through from f on: the least set with f *)
(* in it and, for each child in it, the next.                              *)
Path(next, f) ==
    {g \in Frames \union {NoFrame} :
        \A S \in SUBSET (Frames \union {NoFrame}) :
            f \in S /\ (\A c \in S \intersect Children : next[c] \in S) => g \in S}

(* The frames from the top of root t down to the root itself.              *)
Chain(t) == Path(continuation, top[t])

Alive == {t \in Tasks : at[t] # "ended"}

(* Every frame is where it belongs: control can return from the top to the *)
(* root through frames that exist and have the root's scope, a task not    *)
(* awaited is held by a frame of such a chain, and no frame outlives its   *)
(* root or its caller. *)
FramesSound ==
    /\ \A t \in Alive :
           /\ t \in Chain(t)
           /\ Chain(t) \subseteq Frames
           /\ \A f \in Chain(t) : owning[f] = t /\ (frame[f] = "active" \/ f = top[t])
           /\ frame[top[t]] = IF flow[t] = "final" THEN "final" ELSE "active"
    /\ \A c \in Children :
           /\ frame[c] = "initial" => \E t \in Alive : holder[c] \in Chain(t)
           /\ frame[c] \in {"active", "final"} =>
                  \E t \in Alive : \/ c \in Chain(t)
                                   \/ flow[t] = "returning" /\ continuation[c] = top[t]

(* An exception is lost nowhere between the body that throws it and the    *)
(* task that joins the root, unless a body on its way catches it. *)
ExceptionArrives ==
    \A t \in Tasks \ Alive : sent[t] = (IF t \in uncaught THEN "exception" ELSE "value")
=============================================================================
