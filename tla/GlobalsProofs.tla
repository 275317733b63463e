---------------------------- MODULE GlobalsProofs ---------------------------
(***************************************************************************)
(* What is proved of the global variables that calls and threads share:    *)
(* the last error and the last exception (Errors), the switch of the       *)
(* checks (Checks), and the table of array wrappers (ArrayWrappers).       *)
(***************************************************************************)
EXTENDS Errors, Checks, ArrayWrappers, SequenceTheorems, TLAPS

-----------------------------------------------------------------------------
(* The stack of a thread *)

(* Under a stack that is not empty: all its frames but the last one.       *)
LEMMA UnderIsPrefix ==
  ASSUME NEW S, NEW s \in Seq(S), s # <<>>
  PROVE  LET u == SubSeq(s, 1, Len(s) - 1)
         IN /\ Len(s) \in Nat \ {0}
            /\ u \in Seq(S) /\ Len(u) = Len(s) - 1
            /\ u = <<>> <=> Len(s) = 1
            /\ \A i \in 1..Len(s) - 1 : u[i] = s[i]
<1> DEFINE n == Len(s) - 1
           u == SubSeq(s, 1, n)
<1>1. Len(s) \in Nat \ {0} /\ n \in Nat /\ n \in Int /\ 1 \in Int
  BY EmptySeq
<1>2. n \in 0..Len(s)
  BY <1>1
<1>4. u \in Seq(S) /\ Len(u) = n /\ \A i \in 1..n : u[i] = s[i]
  <2> HIDE DEF n
  <2> QED
    BY <1>1, <1>2
<1>5. u = <<>> <=> n = 0
  <2> HIDE DEF n, u
  <2> QED
    BY <1>1, <1>4, EmptySeq
<1> QED
  <2>1. n = 0 <=> Len(s) = 1
    BY <1>1
  <2> QED
    BY <1>1, <1>4, <1>5, <2>1, Zenon

(* SetTop of a stack that is not empty leaves the frames below the top.    *)
LEMMA SetTopIsLocal ==
  ASSUME NEW S, NEW s \in Seq(S), s # <<>>, NEW f \in S
  PROVE  LET u == Append(SubSeq(s, 1, Len(s) - 1), f)
         IN /\ Len(s) \in Nat \ {0}
            /\ u \in Seq(S) /\ Len(u) = Len(s) /\ u # <<>>
            /\ u[Len(s)] = f
            /\ \A i \in 1..Len(s) - 1 : u[i] = s[i]
  BY UnderIsPrefix, AppendProperties

-----------------------------------------------------------------------------
(* Errors *)

(* A call whose callback runs has not failed; one that has failed and is   *)
(* back has its message in LAST_ERROR_MESSAGE.                             *)
MessageInv ==
  /\ \A t \in Threads : \A i \in 1..Len(stack[t]) :
       stack[t][i].state = "callback" => stack[t][i].status = "success"
  /\ \A t \in Threads : At(t, "returned") /\ Top(t).status # "success" =>
       LAST_ERROR_MESSAGE[t] = Top(t).call
  /\ MessageIsOwn

(* As long as the calls of threads do not overlap, LAST_EXCEPTION is the   *)
(* exception of the innermost call, and of no call when there is none.     *)
CauseInv ==
  /\ \A t, u \in Threads : ~Idle(t) /\ ~Idle(u) => t = u
  /\ \A t \in Threads : \A i \in 1..Len(stack[t]) :
       stack[t][i].status # "external" => stack[t][i].raised = None
  /\ \A t \in Threads : ~Idle(t) => LAST_EXCEPTION = Top(t).raised
  /\ (\A t \in Threads : Idle(t)) => LAST_EXCEPTION = None
  /\ error.cause = error.raised

ErrorsInv == ErrorsTypeOK /\ MessageInv /\ (~disturbed => CauseInv)

(* The inductive invariant holds before the first call.                    *)
LEMMA ErrorsInitially == ErrorsInit => ErrorsInv
<1> SUFFICES ASSUME ErrorsInit PROVE ErrorsInv
  OBVIOUS
<1>1. ErrorsTypeOK
  <2>1. \A t \in Threads : stack[t] = <<>> /\ <<>> \in Seq(Frames) /\ Len(<<>>) = 0
    BY EmptySeq DEF ErrorsInit
  <2>2. stack \in [Threads -> Seq(Frames)]
    BY <2>1 DEF ErrorsInit
  <2>3. \A t \in Threads : \A i \in 1..Len(stack[t]) - 1 : stack[t][i].state = "callback"
    BY <2>1
  <2>4. disturbed \in BOOLEAN
    BY Zenon DEF ErrorsInit
  <2>5. /\ calls \in 0..MaxCalls /\ LAST_EXCEPTION \in 0..MaxCalls
        /\ LAST_ERROR_MESSAGE \in [Threads -> 0..MaxCalls]
        /\ error \in [call : 0..MaxCalls, message : 0..MaxCalls, cause : 0..MaxCalls, raised : 0..MaxCalls]
    BY MaxCallsAssumption DEF ErrorsInit, None
  <2> QED
    BY <2>2, <2>3, <2>4, <2>5, Zenon DEF ErrorsTypeOK
<1>2. MessageInv /\ CauseInv
  BY DEF ErrorsInit, MessageInv, CauseInv, MessageIsOwn, At, Idle, None
<1> QED
  BY <1>1, <1>2 DEF ErrorsInv

(* SetTop replaces the innermost call of one thread.                       *)
LEMMA SetTopFacts ==
  ASSUME stack \in [Threads -> Seq(Frames)], NEW t \in Threads, ~Idle(t),
         NEW f \in Frames, SetTop(t, f)
  PROVE  /\ stack' \in [Threads -> Seq(Frames)]
         /\ \A u \in Threads \ {t} : stack'[u] = stack[u]
         /\ Len(stack[t]) \in Nat \ {0} /\ Len(stack'[t]) = Len(stack[t])
         /\ ~Idle(t)' /\ Top(t)' = f
         /\ \A i \in 1..Len(stack[t]) - 1 : stack'[t][i] = stack[t][i]
<1>1. stack[t] \in Seq(Frames) /\ stack[t] # <<>>
  BY DEF Idle
<1>2. stack'[t] = Append(SubSeq(stack[t], 1, Len(stack[t]) - 1), f)
  BY DEF SetTop, Under
<1>3. stack' = [stack EXCEPT ![t] = stack'[t]]
  BY <1>2 DEF SetTop, Under
<1>4. /\ Len(stack[t]) \in Nat \ {0}
      /\ stack'[t] \in Seq(Frames) /\ Len(stack'[t]) = Len(stack[t]) /\ stack'[t] # <<>>
      /\ stack'[t][Len(stack[t])] = f
      /\ \A i \in 1..Len(stack[t]) - 1 : stack'[t][i] = stack[t][i]
  BY <1>1, <1>2, SetTopIsLocal
<1> QED
  BY <1>3, <1>4 DEF Idle, Top

(* The innermost call of a thread is over: the code that made it goes on,  *)
(* in a callback if there is another call below.                           *)
LEMMA PopFacts ==
  ASSUME ErrorsTypeOK, NEW t \in Threads, ~Idle(t),
         stack' = [stack EXCEPT ![t] = Under(t)]
  PROVE  /\ stack' \in [Threads -> Seq(Frames)]
         /\ \A u \in Threads \ {t} : stack'[u] = stack[u]
         /\ Len(stack[t]) \in Nat \ {0} /\ Len(stack'[t]) = Len(stack[t]) - 1
         /\ \A i \in 1..Len(stack[t]) - 1 : stack'[t][i] = stack[t][i]
         /\ \A i \in 1..Len(stack'[t]) : stack'[t][i].state = "callback"
         /\ ~Idle(t)' => Top(t)' = stack[t][Len(stack[t]) - 1] /\ Len(stack[t]) - 1 \in 1..Len(stack[t])
         /\ ~Idle(t)' => Top(t)'.state = "callback"
<1>1. stack[t] \in Seq(Frames) /\ stack[t] # <<>> /\ stack \in [Threads -> Seq(Frames)]
  BY DEF Idle, ErrorsTypeOK
<1>2. stack'[t] = SubSeq(stack[t], 1, Len(stack[t]) - 1)
  BY <1>1 DEF Under
<1>3. stack' = [stack EXCEPT ![t] = stack'[t]]
  BY <1>2 DEF Under
<1>4. /\ Len(stack[t]) \in Nat \ {0}
      /\ stack'[t] \in Seq(Frames) /\ Len(stack'[t]) = Len(stack[t]) - 1
      /\ stack'[t] = <<>> <=> Len(stack[t]) = 1
      /\ \A i \in 1..Len(stack[t]) - 1 : stack'[t][i] = stack[t][i]
  BY <1>1, <1>2, UnderIsPrefix
<1>5. \A i \in 1..Len(stack[t]) - 1 : stack[t][i].state = "callback"
  BY DEF ErrorsTypeOK
<1>6. \A i \in 1..Len(stack'[t]) : stack'[t][i].state = "callback"
  BY <1>4, <1>5
<1>7. ASSUME ~Idle(t)'
      PROVE  /\ Top(t)' = stack[t][Len(stack[t]) - 1] /\ Len(stack[t]) - 1 \in 1..Len(stack[t])
             /\ Top(t)'.state = "callback"
  <2>1. Len(stack[t]) - 1 \in 1..Len(stack[t]) - 1 /\ Len(stack[t]) - 1 \in 1..Len(stack[t])
    BY <1>4, <1>7 DEF Idle
  <2>2. Top(t)' = stack'[t][Len(stack'[t])]
    BY DEF Top
  <2> QED
    BY <1>4, <1>5, <2>1, <2>2
<1>8. /\ stack' \in [Threads -> Seq(Frames)]
      /\ \A u \in Threads \ {t} : stack'[u] = stack[u]
  BY <1>1, <1>3, <1>4
<1> QED
  BY <1>4, <1>6, <1>7, <1>8

(* A step of the innermost call keeps what is said of messages, if it      *)
(* writes the message when it fails.                                       *)
LEMMA SetTopKeepsMessages ==
  ASSUME ErrorsTypeOK, MessageInv, NEW t \in Threads, ~Idle(t), NEW f \in Frames, SetTop(t, f),
         f.state = "callback" => f.status = "success",
         f.state = "returned" /\ f.status # "success" => LAST_ERROR_MESSAGE'[t] = f.call,
         \A u \in Threads \ {t} : LAST_ERROR_MESSAGE'[u] = LAST_ERROR_MESSAGE[u],
         error' = error
  PROVE  /\ MessageInv'
         /\ \A u \in Threads : \A i \in 1..Len(stack'[u]) - 1 : stack'[u][i].state = "callback"
<1>0. /\ stack' \in [Threads -> Seq(Frames)]
      /\ \A u \in Threads \ {t} : stack'[u] = stack[u]
      /\ Len(stack[t]) \in Nat \ {0} /\ Len(stack'[t]) = Len(stack[t])
      /\ ~Idle(t)' /\ Top(t)' = f
      /\ \A i \in 1..Len(stack[t]) - 1 : stack'[t][i] = stack[t][i]
  BY SetTopFacts DEF ErrorsTypeOK
<1>1. ASSUME NEW u \in Threads, NEW i \in 1..Len(stack'[u])
      PROVE  stack'[u][i].state = "callback" => stack'[u][i].status = "success"
  <2>1. CASE u # t
    BY <1>0, <2>1 DEF MessageInv
  <2>2. CASE u = t /\ i = Len(stack[t])
    BY <1>0, <2>2 DEF Top
  <2>3. CASE u = t /\ i # Len(stack[t])
    BY <1>0, <1>1, <2>3 DEF MessageInv
  <2> QED
    BY <1>0, <2>1, <2>2, <2>3
<1>2. ASSUME NEW u \in Threads, At(u, "returned")', Top(u)'.status # "success"
      PROVE  LAST_ERROR_MESSAGE'[u] = Top(u)'.call
  <2>1. CASE u # t
    BY <1>0, <1>2, <2>1 DEF MessageInv, At, Top, Idle
  <2>2. CASE u = t
    BY <1>0, <1>2, <2>2 DEF At
  <2> QED
    BY <1>0, <2>1, <2>2
<1>3. MessageIsOwn'
  BY <1>0 DEF MessageIsOwn, MessageInv
<1>4. ASSUME NEW u \in Threads, NEW i \in 1..Len(stack'[u]) - 1
      PROVE  stack'[u][i].state = "callback"
  <2>1. CASE u # t
    BY <1>0, <2>1 DEF ErrorsTypeOK
  <2>2. CASE u = t
    BY <1>0, <2>2 DEF ErrorsTypeOK
  <2> QED
    BY <2>1, <2>2
<1> QED
  BY <1>0, <1>1, <1>2, <1>3, <1>4 DEF MessageInv

(* So does the end of a call, if the error that it raises has its message. *)
LEMMA PopKeepsMessages ==
  ASSUME ErrorsTypeOK, MessageInv, NEW t \in Threads, ~Idle(t),
         stack' = [stack EXCEPT ![t] = Under(t)],
         LAST_ERROR_MESSAGE' = LAST_ERROR_MESSAGE, MessageIsOwn'
  PROVE  /\ MessageInv'
         /\ \A u \in Threads : \A i \in 1..Len(stack'[u]) - 1 : stack'[u][i].state = "callback"
<1>0. /\ stack' \in [Threads -> Seq(Frames)]
      /\ \A u \in Threads \ {t} : stack'[u] = stack[u]
      /\ Len(stack[t]) \in Nat \ {0} /\ Len(stack'[t]) = Len(stack[t]) - 1
      /\ \A i \in 1..Len(stack[t]) - 1 : stack'[t][i] = stack[t][i]
      /\ \A i \in 1..Len(stack'[t]) : stack'[t][i].state = "callback"
      /\ ~Idle(t)' => Top(t)' = stack[t][Len(stack[t]) - 1] /\ Len(stack[t]) - 1 \in 1..Len(stack[t])
      /\ ~Idle(t)' => Top(t)'.state = "callback"
  BY PopFacts
<1>1. ASSUME NEW u \in Threads, NEW i \in 1..Len(stack'[u])
      PROVE  stack'[u][i].state = "callback" => stack'[u][i].status = "success"
  <2>1. CASE u # t
    BY <1>0, <2>1 DEF MessageInv
  <2>2. CASE u = t
    BY <1>0, <1>1, <2>2 DEF MessageInv
  <2> QED
    BY <1>0, <2>1, <2>2
<1>2. ASSUME NEW u \in Threads, At(u, "returned")', Top(u)'.status # "success"
      PROVE  LAST_ERROR_MESSAGE'[u] = Top(u)'.call
  <2>1. CASE u # t
    BY <1>0, <1>2, <2>1 DEF MessageInv, At, Top, Idle
  <2>2. CASE u = t
    BY <1>0, <1>2, <2>2 DEF At
  <2> QED
    BY <1>0, <2>1, <2>2
<1>4. \A u \in Threads : \A i \in 1..Len(stack'[u]) - 1 : stack'[u][i].state = "callback"
  BY <1>0 DEF ErrorsTypeOK
<1> QED
  BY <1>0, <1>1, <1>2, <1>4 DEF MessageInv

(* A step of the innermost call keeps what is said of causes, if it saves  *)
(* the exception of its callback.                                          *)
LEMMA SetTopKeepsCauses ==
  ASSUME ErrorsTypeOK, CauseInv, NEW t \in Threads, ~Idle(t), NEW f \in Frames, SetTop(t, f),
         f.status # "external" => f.raised = None,
         LAST_EXCEPTION' = f.raised, error' = error
  PROVE  CauseInv'
<1>0. /\ stack' \in [Threads -> Seq(Frames)]
      /\ \A u \in Threads \ {t} : stack'[u] = stack[u]
      /\ Len(stack[t]) \in Nat \ {0} /\ Len(stack'[t]) = Len(stack[t])
      /\ ~Idle(t)' /\ Top(t)' = f
      /\ \A i \in 1..Len(stack[t]) - 1 : stack'[t][i] = stack[t][i]
  BY SetTopFacts DEF ErrorsTypeOK
<1>1. \A u, v \in Threads : ~Idle(u)' /\ ~Idle(v)' => u = v
  BY <1>0 DEF CauseInv, Idle
<1>2. \A u \in Threads : ~Idle(u)' => u = t
  BY <1>0, <1>1
<1>3. ASSUME NEW u \in Threads, NEW i \in 1..Len(stack'[u])
      PROVE  stack'[u][i].status # "external" => stack'[u][i].raised = None
  <2>1. CASE u # t
    BY <1>0, <2>1 DEF CauseInv
  <2>2. CASE u = t /\ i = Len(stack[t])
    BY <1>0, <2>2 DEF Top
  <2>3. CASE u = t /\ i # Len(stack[t])
    BY <1>0, <1>3, <2>3 DEF CauseInv
  <2> QED
    BY <1>0, <2>1, <2>2, <2>3
<1>4. \A u \in Threads : ~Idle(u)' => LAST_EXCEPTION' = Top(u)'.raised
  BY <1>0, <1>2
<1> QED
  BY <1>0, <1>1, <1>3, <1>4 DEF CauseInv

(* So does the end of a call that takes the exception away.                *)
LEMMA PopKeepsCauses ==
  ASSUME ErrorsTypeOK, MessageInv, CauseInv, NEW t \in Threads, ~Idle(t),
         stack' = [stack EXCEPT ![t] = Under(t)],
         LAST_EXCEPTION' = None, error'.cause = error'.raised
  PROVE  CauseInv'
<1>0. /\ stack' \in [Threads -> Seq(Frames)]
      /\ \A u \in Threads \ {t} : stack'[u] = stack[u]
      /\ Len(stack[t]) \in Nat \ {0} /\ Len(stack'[t]) = Len(stack[t]) - 1
      /\ \A i \in 1..Len(stack[t]) - 1 : stack'[t][i] = stack[t][i]
      /\ \A i \in 1..Len(stack'[t]) : stack'[t][i].state = "callback"
      /\ ~Idle(t)' => Top(t)' = stack[t][Len(stack[t]) - 1] /\ Len(stack[t]) - 1 \in 1..Len(stack[t])
      /\ ~Idle(t)' => Top(t)'.state = "callback"
  BY PopFacts
<1>1. \A u, v \in Threads : ~Idle(u)' /\ ~Idle(v)' => u = v
  BY <1>0 DEF CauseInv, Idle
<1>2. \A u \in Threads : ~Idle(u)' => u = t
  BY <1>0 DEF CauseInv, Idle
<1>3. ASSUME NEW u \in Threads, NEW i \in 1..Len(stack'[u])
      PROVE  stack'[u][i].status # "external" => stack'[u][i].raised = None
  <2>1. CASE u # t
    BY <1>0, <2>1 DEF CauseInv
  <2>2. CASE u = t
    <3>1. i \in 1..Len(stack[t]) - 1 /\ i \in 1..Len(stack[t])
      BY <1>0, <1>3, <2>2
    <3> QED
      BY <1>0, <2>2, <3>1 DEF CauseInv
  <2> QED
    BY <1>0, <2>1, <2>2
<1>4. \A u \in Threads : ~Idle(u)' => None = Top(u)'.raised
  BY <1>0, <1>2 DEF CauseInv, MessageInv
<1> QED
  BY <1>0, <1>1, <1>3, <1>4 DEF CauseInv

(* What a step of the innermost call must do to keep the whole invariant.  *)
LEMMA SetTopKeepsInv ==
  ASSUME ErrorsInv, NEW t \in Threads, ~Idle(t), NEW f \in Frames, SetTop(t, f),
         f.state = "callback" => f.status = "success",
         f.state = "returned" /\ f.status # "success" => LAST_ERROR_MESSAGE'[t] = f.call,
         LAST_ERROR_MESSAGE' \in [Threads -> 0..MaxCalls],
         \A u \in Threads \ {t} : LAST_ERROR_MESSAGE'[u] = LAST_ERROR_MESSAGE[u],
         LAST_EXCEPTION' \in 0..MaxCalls, disturbed' \in BOOLEAN,
         ~disturbed' => ~disturbed /\ (f.status # "external" => f.raised = None) /\ LAST_EXCEPTION' = f.raised,
         calls' = calls, error' = error
  PROVE  ErrorsInv'
<1>1. ErrorsTypeOK /\ MessageInv /\ (~disturbed => CauseInv)
  BY DEF ErrorsInv
<1>2. /\ MessageInv'
      /\ \A u \in Threads : \A i \in 1..Len(stack'[u]) - 1 : stack'[u][i].state = "callback"
  BY <1>1, SetTopKeepsMessages, Zenon
<1>3. stack' \in [Threads -> Seq(Frames)]
  BY <1>1, SetTopFacts DEF ErrorsTypeOK
<1>4. ErrorsTypeOK'
  BY <1>1, <1>2, <1>3, Zenon DEF ErrorsTypeOK
<1>5. ~disturbed' => CauseInv'
  BY <1>1, SetTopKeepsCauses, Zenon
<1> QED
  BY <1>2, <1>4, <1>5, Zenon DEF ErrorsInv

(* What the end of a call must do to keep the whole invariant.             *)
LEMMA PopKeepsInv ==
  ASSUME ErrorsInv, NEW t \in Threads, ~Idle(t), stack' = [stack EXCEPT ![t] = Under(t)],
         LAST_ERROR_MESSAGE' = LAST_ERROR_MESSAGE, MessageIsOwn',
         LAST_EXCEPTION' \in 0..MaxCalls, disturbed' = disturbed, calls' = calls,
         error' \in [call : 0..MaxCalls, message : 0..MaxCalls, cause : 0..MaxCalls, raised : 0..MaxCalls],
         ~disturbed => LAST_EXCEPTION' = None /\ error'.cause = error'.raised
  PROVE  ErrorsInv'
<1>1. ErrorsTypeOK /\ MessageInv /\ (~disturbed => CauseInv)
  BY DEF ErrorsInv
<1>2. /\ MessageInv'
      /\ \A u \in Threads : \A i \in 1..Len(stack'[u]) - 1 : stack'[u][i].state = "callback"
  BY <1>1, PopKeepsMessages, Zenon
<1>3. stack' \in [Threads -> Seq(Frames)]
  BY <1>1, PopFacts
<1>4. ErrorsTypeOK'
  BY <1>1, <1>2, <1>3, Zenon DEF ErrorsTypeOK
<1>5. ~disturbed => CauseInv'
  BY <1>1, PopKeepsCauses, Zenon
<1> QED
  BY <1>2, <1>4, <1>5, Zenon DEF ErrorsInv

(* A call is made where the thread is in no call, or in a callback.        *)
LEMMA CallKeepsInv ==
  ASSUME ErrorsInv, NEW t \in Threads, NEW returns \in {"status", "pointer"}, Call(t, returns)
  PROVE  ErrorsInv'
<1>t. ErrorsTypeOK /\ MessageInv /\ (~disturbed => CauseInv)
  BY DEF ErrorsInv
<1>n. MaxCalls \in Nat /\ 0 \in 0..MaxCalls
  BY MaxCallsAssumption
<1>s. stack \in [Threads -> Seq(Frames)]
  BY <1>t DEF ErrorsTypeOK
<1> DEFINE f == [call |-> calls + 1, returns |-> returns, state |-> "library", status |-> "success", raised |-> None]
<1>1. calls + 1 \in 1..MaxCalls /\ calls' \in 0..MaxCalls
  BY <1>t, <1>n DEF Call, ErrorsTypeOK
<1>2. f \in Frames
  BY <1>1, <1>n DEF Frames, Statuses, None
<1>3. stack' = [stack EXCEPT ![t] = Append(stack[t], f)] /\ stack[t] \in Seq(Frames)
  BY <1>s DEF Call
<1> HIDE DEF f
<1>4. /\ stack' \in [Threads -> Seq(Frames)]
      /\ \A u \in Threads \ {t} : stack'[u] = stack[u]
      /\ Len(stack[t]) \in Nat /\ Len(stack'[t]) = Len(stack[t]) + 1
      /\ ~Idle(t)' /\ Top(t)' = f
      /\ \A i \in 1..Len(stack[t]) : stack'[t][i] = stack[t][i]
  <2>1. /\ Len(stack[t]) \in Nat
        /\ Append(stack[t], f) \in Seq(Frames) /\ Append(stack[t], f) # <<>>
        /\ Len(Append(stack[t], f)) = Len(stack[t]) + 1
        /\ \A i \in 1..Len(stack[t]) : Append(stack[t], f)[i] = stack[t][i]
        /\ Append(stack[t], f)[Len(stack[t]) + 1] = f
    BY <1>2, <1>3, AppendProperties, LenProperties
  <2> QED
    BY <1>s, <1>3, <2>1 DEF Idle, Top
<1>5. \A i \in 1..Len(stack[t]) : stack[t][i].state = "callback"
  <2>1. CASE Idle(t)
    BY <2>1 DEF Idle
  <2>2. CASE ~Idle(t) /\ stack[t][Len(stack[t])].state = "callback"
    BY <1>t, <1>4, <2>2 DEF ErrorsTypeOK
  <2> QED
    BY <2>1, <2>2 DEF Call, At, Top
<1>6. f.state = "library" /\ f.status = "success" /\ f.raised = None
  BY DEF f
<1>7. ASSUME NEW u \in Threads, NEW i \in 1..Len(stack'[u])
      PROVE  \/ stack'[u] = stack[u]
             \/ u = t /\ i \in 1..Len(stack[t]) /\ stack'[u][i] = stack[t][i] /\ stack[t][i].state = "callback"
             \/ u = t /\ i = Len(stack'[t]) /\ stack'[u][i] = f
  <2>1. CASE u # t
    BY <1>4, <2>1
  <2>2. CASE u = t /\ i = Len(stack[t]) + 1
    BY <1>4, <2>2 DEF Top
  <2>3. CASE u = t /\ i # Len(stack[t]) + 1
    BY <1>4, <1>5, <1>7, <2>3
  <2> QED
    BY <2>1, <2>2, <2>3
<1>8. MessageInv'
  <2>1. \A u \in Threads : \A i \in 1..Len(stack'[u]) :
           stack'[u][i].state = "callback" => stack'[u][i].status = "success"
    BY <1>t, <1>6, <1>7 DEF MessageInv
  <2>2. ASSUME NEW u \in Threads, At(u, "returned")', Top(u)'.status # "success"
        PROVE  LAST_ERROR_MESSAGE'[u] = Top(u)'.call
    <3>1. CASE u # t
      BY <1>t, <1>4, <2>2, <3>1 DEF MessageInv, At, Top, Idle, Call
    <3>2. CASE u = t
      BY <1>4, <1>6, <2>2, <3>2
    <3> QED
      BY <3>1, <3>2
  <2>3. MessageIsOwn'
    BY <1>t DEF Call, MessageIsOwn, MessageInv
  <2> QED
    BY <2>1, <2>2, <2>3 DEF MessageInv
<1>9. ErrorsTypeOK'
  <2>1. \A u \in Threads : \A i \in 1..Len(stack'[u]) - 1 : stack'[u][i].state = "callback"
    <3> SUFFICES ASSUME NEW u \in Threads, NEW i \in 1..Len(stack'[u]) - 1
                 PROVE  stack'[u][i].state = "callback"
      OBVIOUS
    <3>1. CASE u # t
      BY <1>t, <1>4, <3>1 DEF ErrorsTypeOK
    <3>2. CASE u = t
      BY <1>4, <1>5, <3>2
    <3> QED
      BY <3>1, <3>2
  <2>2. disturbed' \in BOOLEAN
    BY Zenon DEF Call
  <2> QED
    BY <1>t, <1>1, <1>4, <2>1, <2>2 DEF ErrorsTypeOK, Call
<1>10. ASSUME ~disturbed' PROVE CauseInv'
  <2>1. ~disturbed /\ \A u \in Threads \ {t} : Idle(u)
    BY <1>10, Zenon DEF Call
  <2>2. CauseInv
    BY <1>t, <2>1
  <2>3. \A u \in Threads : ~Idle(u)' => u = t
    BY <1>4, <2>1 DEF Idle
  <2>4. \A u \in Threads : \A i \in 1..Len(stack'[u]) :
           stack'[u][i].status # "external" => stack'[u][i].raised = None
    BY <1>6, <1>7, <2>2 DEF CauseInv
  <2>5. LAST_EXCEPTION = None
    <3>1. CASE Idle(t)
      BY <2>1, <2>2, <3>1 DEF CauseInv
    <3>2. CASE ~Idle(t)
      <4>1. Len(stack[t]) \in 1..Len(stack[t])
        BY <1>s, <3>2, EmptySeq DEF Idle
      <4>2. Top(t).state = "callback" /\ Top(t) = stack[t][Len(stack[t])]
        BY <1>5, <4>1 DEF Top
      <4> QED
        BY <1>t, <2>2, <3>2, <4>1, <4>2 DEF CauseInv, MessageInv
    <3> QED
      BY <3>1, <3>2
  <2>6. LAST_EXCEPTION' = LAST_EXCEPTION /\ error' = error
    BY DEF Call
  <2> QED
    BY <1>4, <1>6, <2>2, <2>3, <2>4, <2>5, <2>6 DEF CauseInv
<1> QED
  BY <1>8, <1>9, <1>10 DEF ErrorsInv

(* Every step keeps the invariant: one step of the proof per action.       *)
LEMMA ErrorsStep == ErrorsInv /\ [ErrorsNext]_errorsVars => ErrorsInv'
<1> SUFFICES ASSUME ErrorsInv, [ErrorsNext]_errorsVars PROVE ErrorsInv'
  OBVIOUS
<1>t. ErrorsTypeOK /\ MessageInv /\ (~disturbed => CauseInv)
  BY DEF ErrorsInv
<1>n. MaxCalls \in Nat /\ 0 \in 0..MaxCalls
  BY MaxCallsAssumption
<1>s. /\ stack \in [Threads -> Seq(Frames)] /\ LAST_EXCEPTION \in 0..MaxCalls
      /\ LAST_ERROR_MESSAGE \in [Threads -> 0..MaxCalls]
      /\ error \in [call : 0..MaxCalls, message : 0..MaxCalls, cause : 0..MaxCalls, raised : 0..MaxCalls]
  BY <1>t DEF ErrorsTypeOK
<1>b. disturbed \in BOOLEAN /\ MessageIsOwn
  BY <1>t, Zenon DEF ErrorsTypeOK, MessageInv
<1>f. ASSUME NEW t \in Threads, ~Idle(t)
      PROVE  /\ Top(t) \in Frames
             /\ ~disturbed => (Top(t).status # "external" => Top(t).raised = None)
             /\ ~disturbed => LAST_EXCEPTION = Top(t).raised /\ error.cause = error.raised
             /\ Top(t).state = "callback" => Top(t).status = "success"
             /\ Top(t).state = "returned" /\ Top(t).status # "success" => LAST_ERROR_MESSAGE[t] = Top(t).call
  <2>1. Len(stack[t]) \in 1..Len(stack[t])
    BY <1>s, <1>f, EmptySeq DEF Idle
  <2>2. Top(t) \in Frames
    BY <1>s, <2>1, ElementOfSeq DEF Top
  <2>3. ASSUME ~disturbed
        PROVE  /\ Top(t).status # "external" => Top(t).raised = None
               /\ LAST_EXCEPTION = Top(t).raised /\ error.cause = error.raised
    <3>1. CauseInv
      BY <1>t, <2>3
    <3> QED
      BY <1>f, <2>1, <3>1 DEF CauseInv, Top
  <2>4. Top(t).state = "callback" => Top(t).status = "success"
    BY <1>t, <2>1 DEF MessageInv, Top
  <2>5. Top(t).state = "returned" /\ Top(t).status # "success" => LAST_ERROR_MESSAGE[t] = Top(t).call
    BY <1>f, <1>t DEF MessageInv, At
  <2> QED
    BY <2>2, <2>3, <2>4, <2>5
<1>1. ASSUME NEW t \in Threads, NEW returns \in {"status", "pointer"}, Call(t, returns)
      PROVE  ErrorsInv'
  BY <1>1, CallKeepsInv
<1>2. ASSUME NEW t \in Threads, Callback(t)
      PROVE  ErrorsInv'
  <2> DEFINE f == [Top(t) EXCEPT !.state = "callback"]
  <2>1. ~Idle(t) /\ Top(t).status = "success" /\ SetTop(t, f)
    BY <1>2 DEF Callback, At
  <2>2. /\ f \in Frames /\ f.state = "callback" /\ f.status = "success" /\ f.raised = Top(t).raised
    BY <1>f, <2>1 DEF Frames
  <2>3. UNCHANGED <<calls, LAST_ERROR_MESSAGE, LAST_EXCEPTION, error, disturbed>>
    BY <1>2 DEF Callback
  <2> HIDE DEF f
  <2>4. ~disturbed => (f.status # "external" => f.raised = None) /\ LAST_EXCEPTION = f.raised
    BY <1>f, <2>1, <2>2
  <2> QED
    BY <1>s, <1>b, <2>1, <2>2, <2>3, <2>4, SetTopKeepsInv
<1>3. ASSUME NEW t \in Threads, CallbackReturns(t)
      PROVE  ErrorsInv'
  <2> DEFINE f == [Top(t) EXCEPT !.state = "library"]
  <2>1. ~Idle(t) /\ Top(t).state = "callback" /\ SetTop(t, f)
    BY <1>3 DEF CallbackReturns, At
  <2>2. /\ f \in Frames /\ f.state = "library" /\ f.status = Top(t).status /\ f.raised = Top(t).raised
    BY <1>f, <2>1 DEF Frames
  <2>3. UNCHANGED <<calls, LAST_ERROR_MESSAGE, LAST_EXCEPTION, error, disturbed>>
    BY <1>3 DEF CallbackReturns
  <2> HIDE DEF f
  <2>4. ~disturbed => (f.status # "external" => f.raised = None) /\ LAST_EXCEPTION = f.raised
    BY <1>f, <2>1, <2>2
  <2> QED
    BY <1>s, <1>b, <2>1, <2>2, <2>3, <2>4, SetTopKeepsInv
<1>4. ASSUME NEW t \in Threads, catch_exceptions(t)
      PROVE  ErrorsInv'
  <2> DEFINE f == [Top(t) EXCEPT !.state = "library", !.status = "external", !.raised = Top(t).call]
  <2>1. ~Idle(t) /\ SetTop(t, f) /\ LAST_EXCEPTION' = Top(t).call
    BY <1>4 DEF catch_exceptions, At, _save_exception
  <2>2. /\ f \in Frames /\ f.state = "library" /\ f.status = "external" /\ f.raised = Top(t).call
        /\ Top(t).call \in 0..MaxCalls
    <3>1. Top(t) \in Frames
      BY <1>f, <2>1
    <3>2. Top(t).call \in 0..MaxCalls
      BY <1>n, <3>1 DEF Frames
    <3> QED
      BY <3>1, <3>2 DEF Frames, Statuses
  <2>3. UNCHANGED <<calls, LAST_ERROR_MESSAGE, error, disturbed>>
    BY <1>4 DEF catch_exceptions
  <2> HIDE DEF f
  <2> QED
    BY <1>s, <1>b, <2>1, <2>2, <2>3, SetTopKeepsInv
<1>5. ASSUME NEW t \in Threads, realloc_fails(t)
      PROVE  ErrorsInv'
  <2> DEFINE f == [Top(t) EXCEPT !.state = "library", !.status = "library", !.raised = Top(t).call]
  <2>1. ~Idle(t) /\ SetTop(t, f) /\ LAST_EXCEPTION' = Top(t).call
    BY <1>5 DEF realloc_fails, At, _save_exception
  <2>2. /\ f \in Frames /\ f.state = "library" /\ Top(t).call \in 0..MaxCalls
    <3>1. Top(t) \in Frames
      BY <1>f, <2>1
    <3>2. Top(t).call \in 0..MaxCalls
      BY <1>n, <3>1 DEF Frames
    <3> QED
      BY <3>1, <3>2 DEF Frames, Statuses
  <2>3. UNCHANGED <<calls, LAST_ERROR_MESSAGE, error>>
    BY <1>5 DEF realloc_fails
  <2>4. disturbed' /\ disturbed' \in BOOLEAN
    BY <1>5, Zenon DEF realloc_fails
  <2> HIDE DEF f
  <2> QED
    BY <1>s, <2>1, <2>2, <2>3, <2>4, SetTopKeepsInv
<1>6. ASSUME NEW t \in Threads, Succeed(t)
      PROVE  ErrorsInv'
  <2> DEFINE f == [Top(t) EXCEPT !.state = "returned"]
  <2>1. ~Idle(t) /\ Top(t).status = "success" /\ SetTop(t, f)
    BY <1>6 DEF Succeed, At
  <2>2. /\ f \in Frames /\ f.state = "returned" /\ f.status = "success" /\ f.raised = Top(t).raised
    BY <1>f, <2>1 DEF Frames
  <2>3. UNCHANGED <<calls, LAST_ERROR_MESSAGE, LAST_EXCEPTION, error, disturbed>>
    BY <1>6 DEF Succeed
  <2> HIDE DEF f
  <2>4. ~disturbed => (f.status # "external" => f.raised = None) /\ LAST_EXCEPTION = f.raised
    BY <1>f, <2>1, <2>2
  <2> QED
    BY <1>s, <1>b, <2>1, <2>2, <2>3, <2>4, SetTopKeepsInv
<1>7. ASSUME NEW t \in Threads, Fail(t)
      PROVE  ErrorsInv'
  <2> DEFINE f == [Top(t) EXCEPT !.state = "returned", !.status = IF @ = "success" THEN "library" ELSE @]
  <2>1. ~Idle(t) /\ SetTop(t, f) /\ LAST_ERROR_MESSAGE' = [LAST_ERROR_MESSAGE EXCEPT ![t] = Top(t).call]
    BY <1>7 DEF Fail, At, SetMessage
  <2>2. /\ f \in Frames /\ f.state = "returned" /\ f.raised = Top(t).raised
        /\ f.call = Top(t).call /\ Top(t).call \in 0..MaxCalls
        /\ f.status # "external" => Top(t).status # "external"
    <3>1. Top(t) \in Frames
      BY <1>f, <2>1
    <3>2. Top(t).call \in 0..MaxCalls
      BY <1>n, <3>1 DEF Frames
    <3> QED
      BY <3>1, <3>2 DEF Frames, Statuses
  <2>3. UNCHANGED <<calls, LAST_EXCEPTION, error, disturbed>>
    BY <1>7 DEF Fail
  <2> HIDE DEF f
  <2>4. ~disturbed => (f.status # "external" => f.raised = None) /\ LAST_EXCEPTION = f.raised
    BY <1>f, <2>1, <2>2
  <2>5. /\ LAST_ERROR_MESSAGE' \in [Threads -> 0..MaxCalls] /\ LAST_ERROR_MESSAGE'[t] = f.call
        /\ \A u \in Threads \ {t} : LAST_ERROR_MESSAGE'[u] = LAST_ERROR_MESSAGE[u]
    BY <1>s, <2>1, <2>2
  <2> QED
    BY <1>s, <1>b, <2>1, <2>2, <2>3, <2>4, <2>5, SetTopKeepsInv
<1>8. ASSUME NEW t \in Threads, check_success(t)
      PROVE  ErrorsInv'
  <2>1. ~Idle(t) /\ stack' = [stack EXCEPT ![t] = Under(t)] /\ Top(t).status = "success"
    BY <1>8 DEF check_success, At
  <2>2. UNCHANGED <<calls, LAST_ERROR_MESSAGE, LAST_EXCEPTION, error, disturbed>>
    BY <1>8 DEF check_success
  <2>3. MessageIsOwn'
    BY <1>b, <2>2 DEF MessageIsOwn
  <2>4. ~disturbed => LAST_EXCEPTION = None /\ error.cause = error.raised
    BY <1>f, <2>1
  <2> QED
    BY <1>s, <2>1, <2>2, <2>3, <2>4, PopKeepsInv
<1>r. ASSUME NEW t \in Threads, NEW cause \in 0..MaxCalls, ~Idle(t), Raise(t, cause),
             Top(t).state = "returned", Top(t).status # "success",
             UNCHANGED <<calls, LAST_ERROR_MESSAGE, disturbed>>, LAST_EXCEPTION' \in 0..MaxCalls,
             ~disturbed => cause = Top(t).raised /\ LAST_EXCEPTION' = None
      PROVE  ErrorsInv'
  <2>1. stack' = [stack EXCEPT ![t] = Under(t)]
    BY <1>r DEF Raise
  <2>2. /\ Top(t).call \in 0..MaxCalls /\ Top(t).raised \in 0..MaxCalls
        /\ LAST_ERROR_MESSAGE[t] \in 0..MaxCalls
    BY <1>f, <1>r, <1>s, <1>n DEF Frames
  <2>3. /\ error' \in [call : 0..MaxCalls, message : 0..MaxCalls, cause : 0..MaxCalls, raised : 0..MaxCalls]
        /\ error'.call = Top(t).call /\ error'.message = LAST_ERROR_MESSAGE[t]
        /\ error'.cause = cause /\ error'.raised = Top(t).raised
    BY <1>r, <2>2 DEF Raise
  <2>4. MessageIsOwn'
    BY <1>f, <1>r, <2>3 DEF MessageIsOwn
  <2> QED
    BY <1>r, <2>1, <2>3, <2>4, PopKeepsInv
<1>9. ASSUME NEW t \in Threads, _check_status(t)
      PROVE  ErrorsInv'
  <2>1. ~Idle(t) /\ Top(t).state = "returned" /\ UNCHANGED <<calls, LAST_ERROR_MESSAGE, disturbed>>
    BY <1>9 DEF _check_status, Returned, At
  <2>2. CASE Top(t).status = "library" /\ Raise(t, None) /\ UNCHANGED LAST_EXCEPTION
    <3>1. ~disturbed => None = Top(t).raised /\ LAST_EXCEPTION = None
      BY <1>f, <2>1, <2>2
    <3>2. None \in 0..MaxCalls
      BY <1>n DEF None
    <3> QED
      BY <1>r, <1>s, <2>1, <2>2, <3>1, <3>2
  <2>3. CASE Top(t).status = "external" /\ Raise(t, LAST_EXCEPTION) /\ LAST_EXCEPTION' = None
    <3>1. ~disturbed => LAST_EXCEPTION = Top(t).raised
      BY <1>f, <2>1
    <3>2. None \in 0..MaxCalls
      BY <1>n DEF None
    <3> QED
      BY <1>r, <1>s, <2>1, <2>3, <3>1, <3>2
  <2> QED
    BY <1>9, <2>2, <2>3 DEF _check_status
<1>10. ASSUME NEW t \in Threads, _check_pointer(t)
       PROVE  ErrorsInv'
  <2>1. /\ ~Idle(t) /\ Top(t).state = "returned" /\ UNCHANGED <<calls, LAST_ERROR_MESSAGE, disturbed>>
        /\ Top(t).status # "success" /\ Raise(t, LAST_EXCEPTION) /\ LAST_EXCEPTION' = None
    BY <1>10 DEF _check_pointer, Returned, At
  <2>2. ~disturbed => LAST_EXCEPTION = Top(t).raised
    BY <1>f, <2>1
  <2>3. None \in 0..MaxCalls
    BY <1>n DEF None
  <2> QED
    BY <1>r, <1>s, <2>1, <2>2, <2>3
<1>11. CASE UNCHANGED errorsVars
  <2> USE <1>11 DEF errorsVars
  <2>1. ErrorsTypeOK'
    BY <1>t DEF ErrorsTypeOK
  <2>2. MessageInv'
    BY <1>t DEF MessageInv, MessageIsOwn, At, Top, Idle
  <2>3. CauseInv => CauseInv'
    BY DEF CauseInv, Top, Idle
  <2> QED
    BY <1>t, <2>1, <2>2, <2>3 DEF ErrorsInv
<1> QED
  BY <1>1, <1>2, <1>3, <1>4, <1>5, <1>6, <1>7, <1>8, <1>9, <1>10, <1>11 DEF ErrorsNext, Done

(***************************************************************************)
(* A MetatensorError has the message of the call that failed, for any      *)
(* number of threads, of nested calls and of callbacks that fail in        *)
(* between; and its cause is the exception of a callback of this call, as  *)
(* long as calls of threads do not overlap and no realloc failed           *)
(* (status.rs, status.py, _c_lib.py).                                      *)
(***************************************************************************)
THEOREM ErrorsAreAlwaysOwn == ErrorsSpec => []ErrorsAreOwn
<1>1. ErrorsInit => ErrorsInv
  BY ErrorsInitially
<1>2. ErrorsInv /\ [ErrorsNext]_errorsVars => ErrorsInv'
  BY ErrorsStep
<1>3. ErrorsInv => ErrorsAreOwn
  BY DEF ErrorsInv, MessageInv, CauseInv, ErrorsAreOwn, CauseIsOwn
<1> QED
  BY <1>1, <1>2, <1>3, PTL DEF ErrorsSpec

(* Every variable has its type, and a call with another one above it is    *)
(* running a callback.                                                     *)
THEOREM ErrorsAreTyped == ErrorsSpec => []ErrorsTypeOK
<1>1. ErrorsInv => ErrorsTypeOK
  BY DEF ErrorsInv
<1> QED
  BY <1>1, ErrorsInitially, ErrorsStep, PTL DEF ErrorsSpec

-----------------------------------------------------------------------------
(* Checks *)

Contexts == [state : BOOLEAN, original_check_state : BOOLEAN]

(* Every with statement will put back the state of the one around it, the  *)
(* outermost the permanent one, and only one thread is in with statements. *)
Nested ==
    /\ \A t, u \in Users : contexts[t] # <<>> /\ contexts[u] # <<>> => t = u
    /\ Restored /\ InnermostDecides
    /\ \A t \in Users : contexts[t] # <<>> => contexts[t][1].original_check_state = permanent
    /\ \A t \in Users : \A i \in 2..Len(contexts[t]) :
          contexts[t][i].original_check_state = contexts[t][i - 1].state

ChecksInv ==
    /\ _CHECKS_ENABLED \in BOOLEAN /\ contexts \in [Users -> Seq(Contexts)]
    /\ ~overlapped => Nested

(* The inductive invariant holds before the first with statement.          *)
LEMMA ChecksInitially == ChecksInit => ChecksInv
<1> SUFFICES ASSUME ChecksInit PROVE ChecksInv
  OBVIOUS
<1>1. \A t \in Users : contexts[t] = <<>> /\ <<>> \in Seq(Contexts) /\ Len(<<>>) = 0
  BY EmptySeq DEF ChecksInit
<1>2. contexts \in [Users -> Seq(Contexts)]
  BY <1>1 DEF ChecksInit
<1>3. \A t \in Users : \A i \in 2..Len(contexts[t]) : FALSE
  BY <1>1
<1>4. Restored /\ InnermostDecides
  BY <1>1, Zenon DEF ChecksInit, Restored, InnermostDecides
<1>5. _CHECKS_ENABLED \in BOOLEAN
  BY Zenon DEF ChecksInit
<1> QED
  BY <1>1, <1>2, <1>3, <1>4, <1>5, Zenon DEF ChecksInv, Nested

(* unsafe_enable_checks() or unsafe_disable_checks() outside of all with   *)
(* statements.                                                             *)
LEMMA SetChecksKeepsInv ==
  ASSUME ChecksInv, NEW state \in BOOLEAN, SetChecks(state)
  PROVE  ChecksInv'
<1>1. /\ \A t \in Users : contexts[t] = <<>>
      /\ _CHECKS_ENABLED' \in BOOLEAN /\ _CHECKS_ENABLED' = permanent' /\ contexts' = contexts /\ overlapped' = overlapped
  BY Zenon DEF SetChecks
<1>2. Restored' /\ InnermostDecides'
  BY <1>1, Zenon DEF Restored, InnermostDecides
<1>3. ~overlapped => Nested'
  <2> SUFFICES ASSUME Nested PROVE Nested'
    BY Zenon DEF ChecksInv
  <2> QED
    BY <1>1, <1>2, Zenon DEF Nested
<1> QED
  BY <1>1, <1>3, Zenon DEF ChecksInv

(* A with statement begins.                                                *)
LEMMA EnterKeepsInv ==
  ASSUME ChecksInv, NEW t \in Users, NEW state \in BOOLEAN, Enter(t, state)
  PROVE  ChecksInv'
<1> DEFINE c == [state |-> state, original_check_state |-> _CHECKS_ENABLED]
           s == contexts[t]
<1>1. c \in Contexts /\ c.state = state /\ c.original_check_state = _CHECKS_ENABLED
  <2>1. _CHECKS_ENABLED \in BOOLEAN
    BY Zenon DEF ChecksInv
  <2> QED
    BY <2>1, Zenon DEF Contexts
<1>2. s \in Seq(Contexts) /\ contexts \in [Users -> Seq(Contexts)]
  BY DEF ChecksInv
<1>3. contexts' = [contexts EXCEPT ![t] = Append(s, c)]
  BY DEF Enter
<1> HIDE DEF c
<1>4. /\ Len(s) \in Nat /\ Append(s, c) \in Seq(Contexts) /\ Append(s, c) # <<>>
      /\ Len(Append(s, c)) = Len(s) + 1
      /\ \A i \in 1..Len(s) : Append(s, c)[i] = s[i]
      /\ Append(s, c)[Len(s) + 1] = c
  BY <1>1, <1>2, AppendProperties, LenProperties
<1>5. /\ contexts' \in [Users -> Seq(Contexts)] /\ contexts'[t] = Append(s, c)
      /\ \A u \in Users \ {t} : contexts'[u] = contexts[u]
  BY <1>2, <1>3, <1>4
<1>6. ASSUME ~overlapped' PROVE Nested'
  <2>1. /\ ~overlapped /\ \A u \in Users \ {t} : contexts[u] = <<>>
        /\ _CHECKS_ENABLED' = state /\ permanent' = permanent
    BY <1>6, Zenon DEF Enter
  <2>2. Nested
    BY <2>1, Zenon DEF ChecksInv
  <2>3. \A u \in Users : contexts'[u] # <<>> => u = t
    BY <1>5, <2>1
  <2>4. Restored'
    BY <1>4, <1>5, Zenon DEF Restored
  <2>5. InnermostDecides'
    <3>1. Last(contexts'[t]) = c
      BY <1>4, <1>5 DEF Last
    <3> QED
      BY <1>1, <2>1, <2>3, <3>1, Zenon DEF InnermostDecides
  <2>6. ASSUME NEW u \in Users, contexts'[u] # <<>>
        PROVE  contexts'[u][1].original_check_state = permanent'
    <3>1. u = t
      BY <2>3, <2>6
    <3>2. CASE s = <<>>
      <4>1. Len(s) + 1 = 1 /\ Append(s, c)[1] = c
        BY <1>4, <3>2
      <4>2. _CHECKS_ENABLED = permanent
        <5>1. \A v \in Users : contexts[v] = <<>>
          BY <2>1, <3>2
        <5> QED
          BY <2>2, <5>1, Zenon DEF Nested, Restored
      <4> QED
        BY <1>1, <1>5, <2>1, <3>1, <4>1, <4>2, Zenon
    <3>3. CASE s # <<>>
      <4>1. 1 \in 1..Len(s)
        BY <1>2, <3>3, EmptySeq
      <4>2. Append(s, c)[1] = s[1] /\ s[1].original_check_state = permanent
        BY <1>4, <2>2, <3>3, <4>1, Zenon DEF Nested
      <4> QED
        BY <1>5, <2>1, <3>1, <4>2, Zenon
    <3> QED
      BY <3>2, <3>3
  <2>7. ASSUME NEW u \in Users, NEW i \in 2..Len(contexts'[u])
        PROVE  contexts'[u][i].original_check_state = contexts'[u][i - 1].state
    <3>1. CASE u # t
      <4>1. contexts'[u] = contexts[u]
        BY <1>5, <3>1
      <4> QED
        BY <2>2, <2>7, <4>1, Zenon DEF Nested
    <3>2. CASE u = t /\ i # Len(s) + 1
      <4>1. i \in 2..Len(s) /\ i \in 1..Len(s) /\ i - 1 \in 1..Len(s)
        BY <1>4, <1>5, <2>7, <3>2
      <4>2. contexts'[u][i] = s[i] /\ contexts'[u][i - 1] = s[i - 1]
        BY <1>4, <1>5, <3>2, <4>1, Zenon
      <4> QED
        BY <2>2, <4>1, <4>2, Zenon DEF Nested
    <3>3. CASE u = t /\ i = Len(s) + 1
      <4>1. /\ i - 1 = Len(s) /\ Len(s) \in 1..Len(s) /\ s # <<>>
        BY <1>4, <1>5, <2>7, <3>3
      <4>2. contexts'[u][i] = c /\ contexts'[u][i - 1] = s[Len(s)]
        BY <1>4, <1>5, <3>3, <4>1, Zenon
      <4>3. _CHECKS_ENABLED = s[Len(s)].state
        <5>1. Last(s) = s[Len(s)]
          BY DEF Last
        <5> QED
          BY <2>2, <4>1, <5>1, Zenon DEF Nested, InnermostDecides
      <4> QED
        BY <1>1, <4>2, <4>3, Zenon
    <3> QED
      BY <3>1, <3>2, <3>3
  <2> QED
    BY <2>3, <2>4, <2>5, <2>6, <2>7, Zenon DEF Nested
<1>7. _CHECKS_ENABLED' \in BOOLEAN
  BY Zenon DEF Enter
<1> QED
  BY <1>5, <1>6, <1>7, Zenon DEF ChecksInv

(* A with statement ends: the state is the one the statement around it     *)
(* asked for, or the permanent one.                                        *)
LEMMA ExitKeepsInv ==
  ASSUME ChecksInv, NEW t \in Users, Exit(t)
  PROVE  ChecksInv'
<1> DEFINE s == contexts[t]
<1>1. s \in Seq(Contexts) /\ contexts \in [Users -> Seq(Contexts)] /\ s # <<>>
  BY DEF ChecksInv, Exit
<1>2. contexts' = [contexts EXCEPT ![t] = Front(s)] /\ Front(s) = SubSeq(s, 1, Len(s) - 1)
  BY DEF Exit, Front
<1>3. /\ Len(s) \in Nat \ {0} /\ Front(s) \in Seq(Contexts) /\ Len(Front(s)) = Len(s) - 1
      /\ Front(s) = <<>> <=> Len(s) = 1
      /\ \A i \in 1..Len(s) - 1 : Front(s)[i] = s[i]
  BY <1>1, <1>2, UnderIsPrefix
<1>4. /\ contexts' \in [Users -> Seq(Contexts)] /\ contexts'[t] = Front(s)
      /\ \A u \in Users \ {t} : contexts'[u] = contexts[u]
  BY <1>1, <1>2, <1>3
<1>5. ASSUME ~overlapped' PROVE Nested'
  <2>1. ~overlapped /\ permanent' = permanent /\ _CHECKS_ENABLED' = s[Len(s)].original_check_state
    BY <1>5, Zenon DEF Exit, Last
  <2>2. Nested
    BY <2>1, Zenon DEF ChecksInv
  <2>3. \A u \in Users : contexts'[u] # <<>> => u = t
    BY <1>1, <1>4, <2>2 DEF Nested
  <2>4. Restored'
    <3> SUFFICES ASSUME contexts'[t] = <<>> PROVE _CHECKS_ENABLED' = permanent'
      BY Zenon DEF Restored
    <3>1. Len(s) = 1
      BY <1>3, <1>4
    <3> QED
      BY <1>1, <2>1, <2>2, <3>1, Zenon DEF Nested
  <2>5. InnermostDecides'
    <3> SUFFICES ASSUME contexts'[t] # <<>> PROVE _CHECKS_ENABLED' = Last(contexts'[t]).state
      BY <2>3, Zenon DEF InnermostDecides
    <3>1. Len(s) \in 2..Len(s) /\ Len(s) - 1 \in 1..Len(s) - 1
      BY <1>3, <1>4
    <3>2. Last(contexts'[t]) = s[Len(s) - 1]
      BY <1>3, <1>4, <3>1 DEF Last
    <3> QED
      BY <2>1, <2>2, <3>1, <3>2, Zenon DEF Nested
  <2>6. ASSUME NEW u \in Users, contexts'[u] # <<>>
        PROVE  contexts'[u][1].original_check_state = permanent'
    <3>1. u = t /\ 1 \in 1..Len(s) - 1
      BY <1>3, <1>4, <2>3, <2>6
    <3>2. contexts'[u][1] = s[1]
      BY <1>3, <1>4, <3>1, Zenon
    <3> QED
      BY <1>1, <2>1, <2>2, <3>2, Zenon DEF Nested
  <2>7. ASSUME NEW u \in Users, NEW i \in 2..Len(contexts'[u])
        PROVE  contexts'[u][i].original_check_state = contexts'[u][i - 1].state
    <3>1. CASE u # t
      <4>1. contexts'[u] = contexts[u]
        BY <1>4, <3>1
      <4> QED
        BY <2>2, <2>7, <4>1, Zenon DEF Nested
    <3>2. CASE u = t
      <4>1. i \in 2..Len(s) /\ i \in 1..Len(s) - 1 /\ i - 1 \in 1..Len(s) - 1
        BY <1>3, <1>4, <2>7, <3>2
      <4>2. contexts'[u][i] = s[i] /\ contexts'[u][i - 1] = s[i - 1]
        BY <1>3, <1>4, <3>2, <4>1, Zenon
      <4> QED
        BY <2>2, <4>1, <4>2, Zenon DEF Nested
    <3> QED
      BY <3>1, <3>2
  <2> QED
    BY <2>3, <2>4, <2>5, <2>6, <2>7, Zenon DEF Nested
<1>6. _CHECKS_ENABLED' \in BOOLEAN
  <2>1. s[Len(s)] \in Contexts
    BY <1>1, <1>3, ElementOfSeq
  <2> QED
    BY <2>1, Zenon DEF Exit, Last, Contexts
<1> QED
  BY <1>4, <1>5, <1>6, Zenon DEF ChecksInv

(* Every step keeps the invariant.                                         *)
LEMMA ChecksStep == ChecksInv /\ [ChecksNext]_checksVars => ChecksInv'
<1> SUFFICES ASSUME ChecksInv, [ChecksNext]_checksVars PROVE ChecksInv'
  OBVIOUS
<1>1. ASSUME NEW t \in Users, Refuse(t)
      PROVE  UNCHANGED <<_CHECKS_ENABLED, contexts, permanent, overlapped>>
  BY <1>1 DEF Refuse
<1>2. ASSUME UNCHANGED <<_CHECKS_ENABLED, contexts, permanent, overlapped>>
      PROVE  ChecksInv'
  BY <1>2, Zenon DEF ChecksInv, Nested, Restored, InnermostDecides
<1>3. CASE ChecksNext
  BY <1>1, <1>2, <1>3, SetChecksKeepsInv, EnterKeepsInv, ExitKeepsInv, Zenon DEF ChecksNext
<1>4. CASE UNCHANGED checksVars
  BY <1>2, <1>4 DEF checksVars
<1> QED
  BY <1>3, <1>4

(***************************************************************************)
(* For any number of with statements nested to any depth, the innermost    *)
(* decides whether operations check their arguments, and after all of them *)
(* the checks are as they were, as long as the with statements of two      *)
(* threads do not overlap (_checks.py).                                    *)
(***************************************************************************)
THEOREM ChecksAreAlwaysRestored == ChecksSpec => []ChecksAreRestored
<1>1. ChecksInv => ChecksAreRestored
  BY Zenon DEF ChecksInv, Nested, ChecksAreRestored
<1> QED
  BY <1>1, ChecksInitially, ChecksStep, PTL DEF ChecksSpec

-----------------------------------------------------------------------------
(***************************************************************************)
(* The table of array wrappers knows every array that the library holds,   *)
(* and nothing else but orphans, for any number of threads, blocks, arrays *)
(* and addresses.                                                          *)
(*                                                                         *)
(* An action of ArrayWrappers appends a new array to what a block or a     *)
(* call holds, drops what one holds, gives it to another one, or makes it  *)
(* an orphan. The first lemmas are about these four changes.               *)
(***************************************************************************)

Member == [id : Addresses, array : Arrays \union {NewArray}]

(* What is to be shown, of what is held by whom, the table and orphans.    *)
Known(H, T, O) ==
    \A x \in Keepers : \A i \in 1..Len(H[x]) :
       /\ H[x][i].id \in DOMAIN T /\ T[H[x][i].id] = H[x][i].array
       /\ H[x][i].id \notin O

Distinct(H) ==
    \A x, y \in Keepers : \A i \in 1..Len(H[x]), j \in 1..Len(H[y]) :
       H[x][i].id = H[y][j].id => x = y /\ i = j

Needed(H, T, O) ==
    \A a \in DOMAIN T : a \notin O => \E x \in Keepers : \E i \in 1..Len(H[x]) : H[x][i].id = a

Good(H, T, O) ==
    /\ H \in [Keepers -> Seq(Member)]
    /\ Known(H, T, O) /\ Distinct(H) /\ O \subseteq DOMAIN T /\ Needed(H, T, O)

(* A new array, under an id that is not in the table.                      *)
LEMMA AppendKeepsGood ==
  ASSUME NEW H, NEW T, NEW O, Good(H, T, O),
         NEW x \in Keepers, NEW m \in Member, m.id \notin DOMAIN T
  PROVE  Good([H EXCEPT ![x] = Append(@, m)],
              [a \in DOMAIN T \union {m.id} |-> IF a = m.id THEN m.array ELSE T[a]], O)
<1>0. Known(H, T, O) /\ Distinct(H) /\ O \subseteq DOMAIN T /\ Needed(H, T, O)
  BY DEF Good
<1> DEFINE G == [H EXCEPT ![x] = Append(@, m)]
           U == [a \in DOMAIN T \union {m.id} |-> IF a = m.id THEN m.array ELSE T[a]]
<1>1. H \in [Keepers -> Seq(Member)] /\ H[x] \in Seq(Member)
  BY DEF Good
<1>2. /\ Len(H[x]) \in Nat /\ Append(H[x], m) \in Seq(Member) /\ Len(Append(H[x], m)) = Len(H[x]) + 1
      /\ \A i \in 1..Len(H[x]) : Append(H[x], m)[i] = H[x][i]
      /\ Append(H[x], m)[Len(H[x]) + 1] = m
  BY <1>1, AppendProperties, LenProperties
<1>3. /\ G \in [Keepers -> Seq(Member)] /\ Len(G[x]) = Len(H[x]) + 1
      /\ \A i \in 1..Len(H[x]) : G[x][i] = H[x][i]
      /\ G[x][Len(H[x]) + 1] = m
      /\ \A y \in Keepers \ {x} : G[y] = H[y]
  BY <1>1, <1>2
<1> HIDE DEF G
<1>4. ASSUME NEW y \in Keepers, NEW i \in 1..Len(G[y])
      PROVE  \/ y = x /\ i = Len(H[x]) + 1 /\ G[y][i] = m
             \/ i \in 1..Len(H[y]) /\ G[y][i] = H[y][i]
  <2>1. CASE y # x
    BY <1>3, <2>1
  <2>2. CASE y = x
    BY <1>2, <1>3, <1>4, <2>2
  <2> QED
    BY <2>1, <2>2
<1>5. ASSUME NEW y \in Keepers, NEW i \in 1..Len(G[y])
      PROVE  G[y][i].id \in DOMAIN U /\ U[G[y][i].id] = G[y][i].array /\ G[y][i].id \notin O
  BY <1>0, <1>4 DEF Known
<1>6. ASSUME NEW y \in Keepers, NEW z \in Keepers, NEW i \in 1..Len(G[y]), NEW j \in 1..Len(G[z]),
             G[y][i].id = G[z][j].id
      PROVE  y = z /\ i = j
  <2>1. \A w \in Keepers : \A l \in 1..Len(H[w]) : H[w][l].id # m.id
    BY <1>0 DEF Known
  <2>2. \A v, w \in Keepers : \A l \in 1..Len(H[v]), k \in 1..Len(H[w]) :
           H[v][l].id = H[w][k].id => v = w /\ l = k
    BY <1>0 DEF Distinct
  <2>3. CASE y = x /\ i = Len(H[x]) + 1 /\ G[y][i] = m
    <3>1. ~ (j \in 1..Len(H[z]) /\ G[z][j] = H[z][j])
      BY <1>6, <2>1, <2>3
    <3> QED
      BY <1>4, <2>3, <3>1
  <2>4. CASE i \in 1..Len(H[y]) /\ G[y][i] = H[y][i]
    <3>1. G[z][j] # m
      BY <1>6, <2>1, <2>4
    <3>2. j \in 1..Len(H[z]) /\ G[z][j] = H[z][j]
      BY <1>4, <3>1
    <3> QED
      BY <1>6, <2>2, <2>4, <3>2
  <2> QED
    BY <1>4, <2>3, <2>4
<1>7. O \subseteq DOMAIN U
  BY <1>0
<1>8. ASSUME NEW a \in DOMAIN U
      PROVE  a \in O \/ \E y \in Keepers : \E i \in 1..Len(G[y]) : G[y][i].id = a
  <2>1. CASE a = m.id
    <3>1. Len(H[x]) + 1 \in 1..Len(G[x])
      BY <1>2, <1>3
    <3> QED
      BY <1>3, <2>1, <3>1
  <2>2. CASE a # m.id /\ a \notin O
    <3>1. PICK y \in Keepers : \E i \in 1..Len(H[y]) : H[y][i].id = a
      BY <1>0, <2>2 DEF Needed
    <3>2. PICK i \in 1..Len(H[y]) : H[y][i].id = a
      BY <3>1
    <3>3. i \in 1..Len(G[y]) /\ G[y][i] = H[y][i]
      <4>1. CASE y # x
        BY <1>3, <4>1
      <4>2. CASE y = x
        BY <1>2, <1>3, <4>2
      <4> QED
        BY <4>1, <4>2
    <3> QED
      BY <3>2, <3>3
  <2> QED
    BY <2>1, <2>2
<1> QED
  BY <1>3, <1>5, <1>6, <1>7, <1>8 DEF Good, Known, Distinct, Needed, G

(* What x holds is dropped, and forgotten by the table.                    *)
LEMMA DropKeepsGood ==
  ASSUME NEW H, NEW T, NEW O, Good(H, T, O), NEW x \in Keepers
  PROVE  Good([H EXCEPT ![x] = <<>>],
              [a \in DOMAIN T \ {m.id : m \in ToSet(H[x])} |-> T[a]], O)
<1>0. Known(H, T, O) /\ Distinct(H) /\ O \subseteq DOMAIN T /\ Needed(H, T, O)
  BY DEF Good
<1> DEFINE G == [H EXCEPT ![x] = <<>>]
           D == {m.id : m \in ToSet(H[x])}
           U == [a \in DOMAIN T \ D |-> T[a]]
<1>1. H \in [Keepers -> Seq(Member)] /\ H[x] \in Seq(Member) /\ DOMAIN H[x] = 1..Len(H[x])
  BY LenProperties DEF Good
<1>2. /\ G \in [Keepers -> Seq(Member)] /\ G[x] = <<>>
      /\ \A y \in Keepers \ {x} : G[y] = H[y]
  BY <1>1, EmptySeq
<1>3. ASSUME NEW y \in Keepers, NEW i \in 1..Len(G[y])
      PROVE  y # x /\ G[y] = H[y] /\ i \in 1..Len(H[y])
  BY <1>2, <1>3, EmptySeq
<1>4. \A a : a \in D <=> \E i \in 1..Len(H[x]) : a = H[x][i].id
  BY <1>1 DEF ToSet
<1> HIDE DEF G, D
<1>5. ASSUME NEW y \in Keepers, NEW i \in 1..Len(G[y])
      PROVE  G[y][i].id \in DOMAIN U /\ U[G[y][i].id] = G[y][i].array /\ G[y][i].id \notin O
  <2>1. G[y][i].id \notin D
    BY <1>0, <1>3, <1>4 DEF Distinct
  <2>2. G[y][i].id \in DOMAIN T /\ T[G[y][i].id] = G[y][i].array /\ G[y][i].id \notin O
    BY <1>0, <1>3 DEF Known
  <2> QED
    BY <2>1, <2>2
<1>6. ASSUME NEW y \in Keepers, NEW z \in Keepers, NEW i \in 1..Len(G[y]), NEW j \in 1..Len(G[z]),
             G[y][i].id = G[z][j].id
      PROVE  y = z /\ i = j
  BY <1>0, <1>3, <1>6 DEF Distinct
<1>7. O \subseteq DOMAIN U
  BY <1>0, <1>4 DEF Known
<1>8. ASSUME NEW a \in DOMAIN U, a \notin O
      PROVE  \E y \in Keepers : \E i \in 1..Len(G[y]) : G[y][i].id = a
  <2>1. a \in DOMAIN T /\ a \notin D
    OBVIOUS
  <2>2. PICK y \in Keepers : \E i \in 1..Len(H[y]) : H[y][i].id = a
    BY <1>0, <1>8, <2>1 DEF Needed
  <2>3. y # x
    BY <1>4, <2>1, <2>2
  <2> QED
    BY <1>2, <2>2, <2>3
<1> QED
  BY <1>2, <1>5, <1>6, <1>7, <1>8 DEF Good, Known, Distinct, Needed, G, D

(* What y holds is given to x.                                             *)
LEMMA GiveKeepsGood ==
  ASSUME NEW H, NEW T, NEW O, Good(H, T, O), NEW x \in Keepers, NEW y \in Keepers, x # y
  PROVE  Good([H EXCEPT ![x] = H[x] \o H[y], ![y] = <<>>], T, O)
<1>0. Known(H, T, O) /\ Distinct(H) /\ O \subseteq DOMAIN T /\ Needed(H, T, O)
  BY DEF Good
<1> DEFINE G == [H EXCEPT ![x] = H[x] \o H[y], ![y] = <<>>]
           n == Len(H[x])
           k == Len(H[y])
           s == H[x] \o H[y]
<1>1. H \in [Keepers -> Seq(Member)] /\ H[x] \in Seq(Member) /\ H[y] \in Seq(Member)
  BY DEF Good
<1>2. /\ n \in Nat /\ k \in Nat /\ s \in Seq(Member) /\ Len(s) = n + k
      /\ \A i \in 1..n : s[i] = H[x][i]
      /\ \A i \in 1..n + k : i > n => s[i] = H[y][i - n]
  BY <1>1, ConcatProperties, LenProperties
<1>k. n = Len(H[x]) /\ k = Len(H[y])
  OBVIOUS
<1> HIDE DEF s, n, k
<1>3. /\ G \in [Keepers -> Seq(Member)] /\ G[x] = s /\ G[y] = <<>>
      /\ \A z \in Keepers \ {x, y} : G[z] = H[z]
  BY <1>1, <1>2, EmptySeq DEF s
<1> HIDE DEF G
(* Where an array of G comes from.                                         *)
<1>4. ASSUME NEW z \in Keepers, NEW i \in 1..Len(G[z])
      PROVE  \/ z # x /\ z # y /\ G[z] = H[z] /\ i \in 1..Len(H[z])
             \/ z = x /\ i \in 1..n /\ i \in 1..Len(H[x]) /\ G[z][i] = H[x][i]
             \/ z = x /\ i - n \in 1..Len(H[y]) /\ i \notin 1..n /\ G[z][i] = H[y][i - n]
  <2>1. CASE z # x /\ z # y
    BY <1>3, <2>1
  <2>2. CASE z = y
    BY <1>3, <1>4, <2>2, EmptySeq
  <2>3. CASE z = x
    <3>1. i \in 1..n + k /\ G[z] = s
      BY <1>2, <1>3, <2>3
    <3>2. CASE i <= n
      <4>1. i \in 1..n /\ s[i] = H[x][i]
        BY <1>2, <3>1, <3>2
      <4> QED
        BY <1>k, <2>3, <3>1, <4>1
    <3>3. CASE i > n
      <4>1. i - n \in 1..k /\ i \notin 1..n /\ s[i] = H[y][i - n]
        BY <1>2, <3>1, <3>3
      <4> QED
        BY <1>k, <2>3, <3>1, <4>1
    <3> QED
      BY <1>2, <3>1, <3>2, <3>3
  <2> QED
    BY <2>1, <2>2, <2>3
<1>5. ASSUME NEW z \in Keepers, NEW i \in 1..Len(G[z])
      PROVE  G[z][i].id \in DOMAIN T /\ T[G[z][i].id] = G[z][i].array /\ G[z][i].id \notin O
  BY <1>0, <1>4 DEF Known
<1>6. ASSUME NEW w \in Keepers, NEW z \in Keepers, NEW i \in 1..Len(G[w]), NEW j \in 1..Len(G[z]),
             G[w][i].id = G[z][j].id
      PROVE  w = z /\ i = j
  <2>1. PICK v \in Keepers : \E p \in 1..Len(H[v]) :
           /\ G[w][i] = H[v][p]
           /\ \/ w = v /\ i = p /\ v # y
              \/ w = x /\ v = y /\ p = i - n
    BY <1>4
  <2>2. PICK u \in Keepers : \E l \in 1..Len(H[u]) :
           /\ G[z][j] = H[u][l]
           /\ \/ z = u /\ j = l /\ u # y
              \/ z = x /\ u = y /\ l = j - n
    BY <1>4
  <2>3. PICK p \in 1..Len(H[v]) :
           /\ G[w][i] = H[v][p]
           /\ \/ w = v /\ i = p /\ v # y
              \/ w = x /\ v = y /\ p = i - n
    BY <2>1
  <2>4. PICK l \in 1..Len(H[u]) :
           /\ G[z][j] = H[u][l]
           /\ \/ z = u /\ j = l /\ u # y
              \/ z = x /\ u = y /\ l = j - n
    BY <2>2
  <2>5. v = u /\ p = l
    BY <1>0, <1>6, <2>3, <2>4 DEF Distinct
  <2> QED
    BY <1>2, <2>3, <2>4, <2>5
<1>7. ASSUME NEW a \in DOMAIN T, a \notin O
      PROVE  \E z \in Keepers : \E i \in 1..Len(G[z]) : G[z][i].id = a
  <2>1. PICK z \in Keepers : \E i \in 1..Len(H[z]) : H[z][i].id = a
    BY <1>0, <1>7 DEF Needed
  <2>2. PICK i \in 1..Len(H[z]) : H[z][i].id = a
    BY <2>1
  <2>3. CASE z # x /\ z # y
    BY <1>3, <2>2, <2>3
  <2>4. CASE z = x
    <3>0. i \in 1..n
      BY <1>k, <2>4
    <3>1. i \in 1..n + k /\ i \in 1..n
      BY <1>2, <3>0
    <3>2. i \in 1..Len(G[x]) /\ G[x][i] = H[x][i]
      BY <1>2, <1>3, <3>1
    <3> QED
      BY <2>2, <2>4, <3>2
  <2>5. CASE z = y
    <3>0. i \in 1..k
      BY <1>k, <2>5
    <3>1. i + n \in 1..n + k /\ i + n > n /\ (i + n) - n = i
      BY <1>2, <3>0
    <3>2. i + n \in 1..Len(G[x]) /\ G[x][i + n] = H[y][i]
      BY <1>2, <1>3, <3>1
    <3> QED
      BY <2>2, <2>5, <3>2
  <2> QED
    BY <2>3, <2>4, <2>5
<1> QED
  BY <1>3, <1>5, <1>6, <1>7 DEF Good, Known, Distinct, Needed, G, s

(* What x holds, one array, becomes an orphan.                             *)
LEMMA OrphanKeepsGood ==
  ASSUME NEW H, NEW T, NEW O, Good(H, T, O), NEW x \in Keepers, Len(H[x]) = 1
  PROVE  Good([H EXCEPT ![x] = <<>>], T, O \union {H[x][1].id})
<1>0. Known(H, T, O) /\ Distinct(H) /\ O \subseteq DOMAIN T /\ Needed(H, T, O)
  BY DEF Good
<1> DEFINE G == [H EXCEPT ![x] = <<>>]
<1>1. H \in [Keepers -> Seq(Member)] /\ 1 \in 1..Len(H[x])
  BY DEF Good
<1>2. /\ G \in [Keepers -> Seq(Member)] /\ G[x] = <<>>
      /\ \A y \in Keepers \ {x} : G[y] = H[y]
  BY <1>1, EmptySeq
<1>3. ASSUME NEW y \in Keepers, NEW i \in 1..Len(G[y])
      PROVE  y # x /\ G[y] = H[y] /\ i \in 1..Len(H[y])
  BY <1>2, <1>3, EmptySeq
<1> HIDE DEF G
<1>5. ASSUME NEW y \in Keepers, NEW i \in 1..Len(G[y])
      PROVE  /\ G[y][i].id \in DOMAIN T /\ T[G[y][i].id] = G[y][i].array
             /\ G[y][i].id \notin O \union {H[x][1].id}
  <2>1. G[y][i].id # H[x][1].id
    <3>1. y # x /\ G[y][i] = H[y][i] /\ i \in 1..Len(H[y]) /\ 1 \in 1..Len(H[x])
      BY <1>1, <1>3
    <3> QED
      BY <1>0, <3>1, Zenon DEF Distinct
  <2>2. G[y][i].id \in DOMAIN T /\ T[G[y][i].id] = G[y][i].array /\ G[y][i].id \notin O
    BY <1>0, <1>3 DEF Known
  <2> QED
    BY <2>1, <2>2
<1>6. ASSUME NEW y \in Keepers, NEW z \in Keepers, NEW i \in 1..Len(G[y]), NEW j \in 1..Len(G[z]),
             G[y][i].id = G[z][j].id
      PROVE  y = z /\ i = j
  BY <1>0, <1>3, <1>6 DEF Distinct
<1>7. O \union {H[x][1].id} \subseteq DOMAIN T
  BY <1>0, <1>1 DEF Known
<1>8. ASSUME NEW a \in DOMAIN T, a \notin O \union {H[x][1].id}
      PROVE  \E y \in Keepers : \E i \in 1..Len(G[y]) : G[y][i].id = a
  <2>1. PICK y \in Keepers : \E i \in 1..Len(H[y]) : H[y][i].id = a
    BY <1>0, <1>8 DEF Needed
  <2>2. y # x
    BY <1>8, <2>1
  <2> QED
    BY <1>2, <2>1, <2>2
<1> QED
  BY <1>2, <1>5, <1>6, <1>7, <1>8 DEF Good, Known, Distinct, Needed, G

-----------------------------------------------------------------------------
(* What the library holds, as a function.                                  *)
Holding == [x \in Keepers |-> Held(x)]

Calls == [op : {"idle", "block", "make"}, source : Seq(Blocks), temp : Seq(Member)]

(* The inductive invariant: a call that makes a block holds its one array, *)
(* and the arrays of everyone are known, distinct and needed.              *)
WrappersInv ==
    /\ blocks \in [Blocks -> Seq(Member)]
    /\ call \in [Callers -> Calls]
    /\ \A t \in Callers : call[t].op = "block" => Len(call[t].temp) = 1
    /\ Good(Holding, table, orphans)

LEMMA HeldByWhom ==
  /\ \A b \in Blocks : b \in Keepers /\ Holding[b] = blocks[b]
  /\ \A t \in Callers : t \in Keepers /\ Holding[t] = call[t].temp
  BY KeepersAssumption DEF Keepers, Holding, Held

(* Two functions of the keepers are equal if they are for blocks and for   *)
(* callers.                                                                *)
LEMMA SameHolding ==
  ASSUME NEW G, NEW R, G \in [Keepers -> R],
         \A b \in Blocks : G[b] = blocks'[b],
         \A t \in Callers : G[t] = call'[t].temp
  PROVE  Holding' = G
  BY KeepersAssumption DEF Keepers, Holding, Held

LEMMA NoCallIsTyped == NoCall \in Calls /\ NoCall.temp = <<>> /\ NoCall.op = "idle" /\ NoCall.source = <<>>
  BY EmptySeq DEF NoCall, Calls

LEMMA WrappersInitInv == WrappersInit => WrappersInv
<1> SUFFICES ASSUME WrappersInit PROVE WrappersInv
  OBVIOUS
<1>1. blocks \in [Blocks -> Seq(Member)] /\ call \in [Callers -> Calls]
  BY NoCallIsTyped, EmptySeq DEF WrappersInit
<1>2. \A x \in Keepers : Holding[x] = <<>>
  BY HeldByWhom, NoCallIsTyped DEF WrappersInit, Keepers
<1>3. Holding \in [Keepers -> Seq(Member)]
  BY <1>2, EmptySeq DEF Holding
<1>4. \A x \in Keepers : 1..Len(Holding[x]) = {}
  BY <1>2, EmptySeq
<1>5. DOMAIN table = {} /\ orphans = {}
  BY DEF WrappersInit
<1>6. Good(Holding, table, orphans)
  BY <1>3, <1>4, <1>5 DEF Good, Known, Distinct, Needed
<1> QED
  BY <1>1, <1>6, NoCallIsTyped DEF WrappersInv, WrappersInit

LEMMA HoldingIsTyped == ASSUME WrappersInv PROVE Holding \in [Keepers -> Seq(Member)]
  BY DEF WrappersInv, Good

(* The thread t holds s from now on, and nothing else is changed.          *)
LEMMA CallerHolds ==
  ASSUME WrappersInv, NEW t \in Callers, NEW c \in Calls,
         call' = [call EXCEPT ![t] = c], blocks' = blocks
  PROVE  /\ Holding' = [Holding EXCEPT ![t] = c.temp]
         /\ call' \in [Callers -> Calls] /\ call'[t] = c
         /\ \A u \in Callers \ {t} : call'[u] = call[u]
<1>1. call' \in [Callers -> Calls] /\ call'[t] = c /\ \A u \in Callers \ {t} : call'[u] = call[u]
  BY DEF WrappersInv
<1>2. c.temp \in Seq(Member) /\ t \in Keepers
  BY HeldByWhom DEF Calls
<1> DEFINE G == [Holding EXCEPT ![t] = c.temp]
<1>3. G \in [Keepers -> Seq(Member)] /\ G[t] = c.temp /\ \A x \in Keepers \ {t} : G[x] = Holding[x]
  BY <1>2, HoldingIsTyped
<1> HIDE DEF G
<1>4. \A b \in Blocks : b \in Keepers \ {t} /\ G[b] = blocks'[b]
  BY <1>3, HeldByWhom, KeepersAssumption
<1>5. \A u \in Callers : G[u] = call'[u].temp
  BY <1>1, <1>3, HeldByWhom
<1>6. Holding' = G
  BY <1>3, <1>4, <1>5, SameHolding
<1> QED
  BY <1>1, <1>6 DEF G

LEMMA CallEnds ==
  ASSUME WrappersInv, NEW t \in Callers, call' = [call EXCEPT ![t] = NoCall], blocks' = blocks
  PROVE  /\ Holding' = [Holding EXCEPT ![t] = <<>>]
         /\ call' \in [Callers -> Calls] /\ call'[t] = NoCall
         /\ \A u \in Callers \ {t} : call'[u] = call[u]
<1>1. NoCall \in Calls /\ NoCall.temp = <<>>
  BY NoCallIsTyped
<1>2. /\ Holding' = [Holding EXCEPT ![t] = NoCall.temp]
      /\ call' \in [Callers -> Calls] /\ call'[t] = NoCall
      /\ \A u \in Callers \ {t} : call'[u] = call[u]
  BY <1>1, CallerHolds
<1> QED
  BY <1>1, <1>2

LEMMA WrappersNextInv == WrappersInv /\ [WrappersNext]_wrappersVars => WrappersInv'
<1> SUFFICES ASSUME WrappersInv, [WrappersNext]_wrappersVars PROVE WrappersInv'
  OBVIOUS
<1>0. /\ blocks \in [Blocks -> Seq(Member)] /\ call \in [Callers -> Calls]
      /\ \A t \in Callers : call[t].op = "block" => Len(call[t].temp) = 1
      /\ Good(Holding, table, orphans)
  BY DEF WrappersInv
<1>t. \A t \in Callers : call[t].temp \in Seq(Member) /\ call[t].source \in Seq(Blocks) /\ t \in Keepers
  BY <1>0, HeldByWhom DEF Calls
<1>s. \A m \in Member : <<m>> \in Seq(Member) /\ Len(<<m>>) = 1 /\ <<m>> = Append(<<>>, m)
  BY EmptySeq
<1>1. ASSUME NEW t \in Callers, StartBlock(t) PROVE WrappersInv'
  <2>1. PICK array \in Arrays, id \in Addresses :
          /\ create_mts_array(array, id)
          /\ call' = [call EXCEPT ![t] = [op |-> "block", source |-> <<>>, temp |-> <<[id |-> id, array |-> array]>>]]
    BY <1>1 DEF StartBlock
  <2> DEFINE m == [id |-> id, array |-> array]
             c == [op |-> "block", source |-> <<>>, temp |-> <<m>>]
  <2>2. m \in Member /\ m.id = id /\ m.array = array
    BY DEF Member
  <2>3. c \in Calls /\ c.temp = <<m>> /\ c.op = "block"
    BY <1>s, <2>2, EmptySeq DEF Calls
  <2>4. call' = [call EXCEPT ![t] = c] /\ blocks' = blocks /\ orphans' = orphans
    BY <1>1, <2>1 DEF StartBlock
  <2>5. m.id \notin DOMAIN table
        /\ table' = [a \in DOMAIN table \union {m.id} |-> IF a = m.id THEN m.array ELSE table[a]]
    BY <2>1, <2>2 DEF create_mts_array
  <2> HIDE DEF m, c
  <2>6. /\ Holding' = [Holding EXCEPT ![t] = c.temp]
        /\ call' \in [Callers -> Calls] /\ call'[t] = c
        /\ \A u \in Callers \ {t} : call'[u] = call[u]
    BY <2>3, <2>4, CallerHolds
  <2>7. Holding[t] = <<>>
    BY <1>1, HeldByWhom, NoCallIsTyped DEF StartBlock
  <2>8. [Holding EXCEPT ![t] = c.temp] = [Holding EXCEPT ![t] = Append(@, m)]
    BY <1>s, <2>2, <2>3, <2>7
  <2>9. Good(Holding', table', orphans')
    <3>1. Good([Holding EXCEPT ![t] = Append(@, m)],
               [a \in DOMAIN table \union {m.id} |-> IF a = m.id THEN m.array ELSE table[a]], orphans)
      BY <1>0, <1>t, <2>2, <2>5, AppendKeepsGood
    <3> QED
      BY <2>4, <2>5, <2>6, <2>8, <3>1
  <2>10. \A u \in Callers : call'[u].op = "block" => Len(call'[u].temp) = 1
    BY <1>0, <1>s, <2>2, <2>3, <2>6
  <2> QED
    BY <1>0, <2>4, <2>6, <2>9, <2>10 DEF WrappersInv
<1>2. ASSUME NEW t \in Callers, LabelsAreAView(t) PROVE WrappersInv'
  <2>1. /\ call[t].op = "block" /\ Len(call[t].temp) = 1
        /\ orphans' = orphans \union {Holding[t][1].id} /\ Len(Holding[t]) = 1
        /\ call' = [call EXCEPT ![t] = NoCall] /\ table' = table /\ blocks' = blocks
    BY <1>0, <1>2, HeldByWhom DEF LabelsAreAView
  <2>2. /\ Holding' = [Holding EXCEPT ![t] = <<>>]
        /\ call' \in [Callers -> Calls] /\ call'[t] = NoCall
        /\ \A u \in Callers \ {t} : call'[u] = call[u]
    BY <2>1, CallEnds
  <2>3. Good(Holding', table', orphans')
    BY <1>0, <1>t, <2>1, <2>2, OrphanKeepsGood
  <2> QED
    BY <1>0, <2>1, <2>2, <2>3, NoCallIsTyped DEF WrappersInv
<1>3. ASSUME NEW t \in Callers, StartCall(t) PROVE WrappersInv'
  <2>1. PICK c \in Calls : call' = [call EXCEPT ![t] = c] /\ c.op = "make" /\ c.temp = <<>>
    <3>1. CASE call' = [call EXCEPT ![t] = [NoCall EXCEPT !.op = "make"]]
      <4>1. [NoCall EXCEPT !.op = "make"] = [op |-> "make", source |-> <<>>, temp |-> <<>>]
        BY DEF NoCall
      <4>2. [op |-> "make", source |-> <<>>, temp |-> <<>>] \in Calls
        BY EmptySeq DEF Calls
      <4> QED
        BY <3>1, <4>1, <4>2
    <3>2. ASSUME NEW b \in Live, call' = [call EXCEPT ![t] = [NoCall EXCEPT !.op = "make", !.source = <<b>>]]
          PROVE  \E c \in Calls : call' = [call EXCEPT ![t] = c] /\ c.op = "make" /\ c.temp = <<>>
      <4> DEFINE c == [NoCall EXCEPT !.op = "make", !.source = <<b>>]
      <4>1. <<b>> \in Seq(Blocks)
        BY DEF Live
      <4>2. c \in Calls /\ c.op = "make" /\ c.temp = <<>>
        BY <4>1, NoCallIsTyped DEF Calls
      <4> QED
        BY <3>2, <4>2
    <3> QED
      BY <1>3, <3>1, <3>2 DEF StartCall
  <2>2. table' = table /\ orphans' = orphans /\ blocks' = blocks /\ call[t].temp = <<>>
    BY <1>3, NoCallIsTyped DEF StartCall
  <2>3. /\ Holding' = [Holding EXCEPT ![t] = <<>>]
        /\ call' \in [Callers -> Calls] /\ call'[t] = c
        /\ \A u \in Callers \ {t} : call'[u] = call[u]
    BY <2>1, <2>2, CallerHolds
  <2>4. Holding' = Holding
    BY <1>t, <2>2, <2>3, HoldingIsTyped, HeldByWhom
  <2> QED
    BY <1>0, <2>1, <2>2, <2>3, <2>4 DEF WrappersInv
<1>4. ASSUME NEW t \in Callers, _mts_array_create(t) PROVE WrappersInv'
  <2>1. PICK id \in Addresses :
          /\ create_mts_array(NewArray, id)
          /\ call' = [call EXCEPT ![t].temp = Append(@, [id |-> id, array |-> NewArray])]
    BY <1>4 DEF _mts_array_create
  <2> DEFINE m == [id |-> id, array |-> NewArray]
             c == [call[t] EXCEPT !.temp = Append(call[t].temp, m)]
  <2>2. m \in Member /\ m.id = id /\ m.array = NewArray
    BY DEF Member
  <2>3. call[t] \in Calls /\ call[t].op = "make" /\ Append(call[t].temp, m) \in Seq(Member)
    BY <1>0, <1>4, <1>t, <2>2, AppendProperties DEF _mts_array_create
  <2>4. call' = [call EXCEPT ![t] = c] /\ blocks' = blocks /\ orphans' = orphans
    BY <1>4, <2>1 DEF _mts_array_create
  <2>5. m.id \notin DOMAIN table
        /\ table' = [a \in DOMAIN table \union {m.id} |-> IF a = m.id THEN m.array ELSE table[a]]
    BY <2>1, <2>2 DEF create_mts_array
  <2> HIDE DEF m
  <2>6. c \in Calls /\ c.temp = Append(call[t].temp, m) /\ c.op = "make"
    BY <2>3 DEF Calls
  <2> HIDE DEF c
  <2>7. /\ Holding' = [Holding EXCEPT ![t] = c.temp]
        /\ call' \in [Callers -> Calls] /\ call'[t] = c
        /\ \A u \in Callers \ {t} : call'[u] = call[u]
    BY <2>4, <2>6, CallerHolds
  <2>8. [Holding EXCEPT ![t] = c.temp] = [Holding EXCEPT ![t] = Append(@, m)]
    BY <2>6, HeldByWhom
  <2>9. Good([Holding EXCEPT ![t] = Append(@, m)],
             [a \in DOMAIN table \union {m.id} |-> IF a = m.id THEN m.array ELSE table[a]], orphans)
    BY <1>0, <1>t, <2>2, <2>5, AppendKeepsGood
  <2>10. Good(Holding', table', orphans')
    BY <2>4, <2>5, <2>7, <2>8, <2>9
  <2>11. \A u \in Callers : call'[u].op = "block" => Len(call'[u].temp) = 1
    BY <1>0, <2>6, <2>7
  <2> QED
    BY <1>0, <2>4, <2>7, <2>10, <2>11 DEF WrappersInv
<1>5. ASSUME NEW t \in Callers, CallFails(t) PROVE WrappersInv'
  <2>1. /\ call' = [call EXCEPT ![t] = NoCall] /\ blocks' = blocks /\ orphans' = orphans
        /\ table' = [a \in DOMAIN table \ {m.id : m \in ToSet(Holding[t])} |-> table[a]]
    BY <1>5, HeldByWhom DEF CallFails, _mts_array_destroy
  <2>2. /\ Holding' = [Holding EXCEPT ![t] = <<>>]
        /\ call' \in [Callers -> Calls] /\ call'[t] = NoCall
        /\ \A u \in Callers \ {t} : call'[u] = call[u]
    BY <2>1, CallEnds
  <2>3. Good([Holding EXCEPT ![t] = <<>>],
             [a \in DOMAIN table \ {m.id : m \in ToSet(Holding[t])} |-> table[a]], orphans)
    BY <1>0, <1>t, DropKeepsGood
  <2>4. Good(Holding', table', orphans')
    BY <2>1, <2>2, <2>3
  <2> QED
    BY <1>0, <2>1, <2>2, <2>4, NoCallIsTyped DEF WrappersInv
<1>6. ASSUME NEW t \in Callers, CallSucceeds(t) PROVE WrappersInv'
  <2> DEFINE b == CHOOSE b \in Blocks : b \notin Live
  <2>1. b \in Blocks /\ b \notin Live
    BY <1>6 DEF CallSucceeds, Live
  <2>2. /\ blocks' = [blocks EXCEPT ![b] = call[t].temp] /\ call' = [call EXCEPT ![t] = NoCall]
        /\ table' = table /\ orphans' = orphans
    BY <1>6 DEF CallSucceeds
  <2> HIDE DEF b
  <2>3. b # t /\ b \in Keepers /\ t \in Keepers /\ Holding[b] = <<>> /\ Holding[t] = call[t].temp
    BY <2>1, HeldByWhom, KeepersAssumption DEF Live
  <2>4. call[t].temp \in Seq(Member) /\ Holding[b] \o Holding[t] = call[t].temp
    BY <1>t, <2>3, ConcatEmptySeq
  <2> DEFINE G == [Holding EXCEPT ![b] = Holding[b] \o Holding[t], ![t] = <<>>]
  <2>5. /\ G \in [Keepers -> Seq(Member)] /\ G[b] = call[t].temp /\ G[t] = <<>>
        /\ \A x \in Keepers \ {b, t} : G[x] = Holding[x]
    BY <2>3, <2>4, HoldingIsTyped, EmptySeq
  <2>6. Good(G, table, orphans)
    BY <1>0, <2>3, GiveKeepsGood
  <2> HIDE DEF G
  <2>7. /\ call' \in [Callers -> Calls] /\ call'[t] = NoCall
        /\ \A u \in Callers \ {t} : call'[u] = call[u]
    BY <1>0, <2>2, NoCallIsTyped
  <2>8. blocks' \in [Blocks -> Seq(Member)] /\ blocks'[b] = call[t].temp /\ \A d \in Blocks \ {b} : blocks'[d] = blocks[d]
    BY <1>0, <2>1, <2>2, <2>4
  <2>9. \A d \in Blocks : G[d] = blocks'[d]
    BY <2>5, <2>8, HeldByWhom, KeepersAssumption
  <2>10. \A u \in Callers : G[u] = call'[u].temp
    BY <2>1, <2>5, <2>7, HeldByWhom, KeepersAssumption, NoCallIsTyped
  <2>11. Holding' = G
    BY <2>5, <2>9, <2>10, SameHolding
  <2> QED
    BY <1>0, <2>2, <2>6, <2>7, <2>8, <2>11, NoCallIsTyped DEF WrappersInv
<1>7. ASSUME AddGradient PROVE WrappersInv'
  <2>1. PICK b \in Live, g \in Live : b # g /\ blocks' = [blocks EXCEPT ![b] = @ \o blocks[g], ![g] = <<>>]
                                    /\ table' = table /\ call' = call /\ orphans' = orphans
    BY <1>7 DEF AddGradient
  <2>2. /\ b \in Blocks /\ g \in Blocks /\ b \in Keepers /\ g \in Keepers
        /\ Holding[b] = blocks[b] /\ Holding[g] = blocks[g]
    BY HeldByWhom DEF Live
  <2>3. blocks[b] \in Seq(Member) /\ blocks[g] \in Seq(Member) /\ blocks[b] \o blocks[g] \in Seq(Member)
    BY <1>0, <2>2, ConcatProperties
  <2> DEFINE G == [Holding EXCEPT ![b] = Holding[b] \o Holding[g], ![g] = <<>>]
  <2>5. /\ G \in [Keepers -> Seq(Member)] /\ G[b] = blocks[b] \o blocks[g] /\ G[g] = <<>>
        /\ \A x \in Keepers \ {b, g} : G[x] = Holding[x]
    BY <2>1, <2>2, <2>3, HoldingIsTyped, EmptySeq
  <2>6. Good(G, table, orphans)
    BY <1>0, <2>1, <2>2, GiveKeepsGood
  <2> HIDE DEF G
  <2>8. /\ blocks' \in [Blocks -> Seq(Member)] /\ blocks'[b] = blocks[b] \o blocks[g] /\ blocks'[g] = <<>>
        /\ \A d \in Blocks \ {b, g} : blocks'[d] = blocks[d]
    BY <1>0, <2>1, <2>2, <2>3, EmptySeq
  <2>9. \A d \in Blocks : G[d] = blocks'[d]
    BY <2>2, <2>5, <2>8, HeldByWhom
  <2>10. \A u \in Callers : G[u] = call'[u].temp
    BY <2>1, <2>2, <2>5, HeldByWhom, KeepersAssumption
  <2>11. Holding' = G
    BY <2>5, <2>9, <2>10, SameHolding
  <2> QED
    BY <1>0, <2>1, <2>6, <2>8, <2>11 DEF WrappersInv
<1>8. ASSUME FreeBlock PROVE WrappersInv'
  <2>1. PICK b \in Live : /\ _mts_array_destroy(blocks[b]) /\ blocks' = [blocks EXCEPT ![b] = <<>>]
                          /\ call' = call /\ orphans' = orphans
    BY <1>8 DEF FreeBlock
  <2>2. b \in Blocks /\ b \in Keepers /\ Holding[b] = blocks[b]
    BY HeldByWhom DEF Live
  <2>3. table' = [a \in DOMAIN table \ {m.id : m \in ToSet(Holding[b])} |-> table[a]]
    BY <2>1, <2>2 DEF _mts_array_destroy
  <2> DEFINE G == [Holding EXCEPT ![b] = <<>>]
  <2>5. /\ G \in [Keepers -> Seq(Member)] /\ G[b] = <<>>
        /\ \A x \in Keepers \ {b} : G[x] = Holding[x]
    BY <2>2, HoldingIsTyped, EmptySeq
  <2>6. Good(G, [a \in DOMAIN table \ {m.id : m \in ToSet(Holding[b])} |-> table[a]], orphans)
    BY <1>0, <2>2, DropKeepsGood
  <2> HIDE DEF G
  <2>8. /\ blocks' \in [Blocks -> Seq(Member)] /\ blocks'[b] = <<>>
        /\ \A d \in Blocks \ {b} : blocks'[d] = blocks[d]
    BY <1>0, <2>1, <2>2, EmptySeq
  <2>9. \A d \in Blocks : G[d] = blocks'[d]
    BY <2>2, <2>5, <2>8, HeldByWhom
  <2>10. \A u \in Callers : G[u] = call'[u].temp
    BY <2>1, <2>2, <2>5, HeldByWhom, KeepersAssumption
  <2>11. Holding' = G
    BY <2>5, <2>9, <2>10, SameHolding
  <2>12. Good(Holding', table', orphans')
    BY <2>1, <2>3, <2>6, <2>11
  <2> QED
    BY <1>0, <2>1, <2>8, <2>12 DEF WrappersInv
<1>9. ASSUME UNCHANGED wrappersVars PROVE WrappersInv'
  BY <1>9 DEF wrappersVars, WrappersInv, Holding, Held, Good, Known, Distinct, Needed
<1> QED
  BY <1>1, <1>2, <1>3, <1>4, <1>5, <1>6, <1>7, <1>8, <1>9 DEF WrappersNext

(* WrappersInv says what WrappersAreKnown does.                            *)
LEMMA InvImpliesKnown == WrappersInv => WrappersAreKnown
<1> SUFFICES ASSUME WrappersInv PROVE WrappersAreKnown
  OBVIOUS
<1>0. Known(Holding, table, orphans) /\ Distinct(Holding) /\ orphans \subseteq DOMAIN table /\ Needed(Holding, table, orphans)
  BY DEF WrappersInv, Good
<1>1. \A x \in Keepers : Held(x) = Holding[x] /\ DOMAIN Held(x) = 1..Len(Holding[x])
  <2>1. \A x \in Keepers : Held(x) = Holding[x] /\ Holding[x] \in Seq(Member)
    BY HoldingIsTyped DEF Holding
  <2> QED
    BY <2>1, LenProperties
<1>2. \A m : m \in Owned <=> \E x \in Keepers : \E i \in 1..Len(Holding[x]) : m = Holding[x][i]
  BY <1>1 DEF Owned, ToSet
<1>3. ArraysAreKnown
  BY <1>0, <1>2 DEF ArraysAreKnown, Known
<1>4. WrappersAreNotShared
  <2> SUFFICES ASSUME NEW x \in Keepers, NEW y \in Keepers, NEW i \in DOMAIN Held(x), NEW j \in DOMAIN Held(y),
                      Held(x)[i].id = Held(y)[j].id
               PROVE  x = y /\ i = j
    BY DEF WrappersAreNotShared
  <2>1. i \in 1..Len(Holding[x]) /\ j \in 1..Len(Holding[y]) /\ Holding[x][i].id = Holding[y][j].id
    BY <1>1
  <2> QED
    BY <1>0, <2>1 DEF Distinct
<1>5. NothingElseIsKept
  <2>1. ASSUME NEW a \in DOMAIN table PROVE a \in {m.id : m \in Owned} \union orphans
    BY <1>0, <1>2, <2>1 DEF Needed
  <2>2. ASSUME NEW m \in Owned PROVE m.id \in DOMAIN table
    BY <1>3, <2>2 DEF ArraysAreKnown
  <2> QED
    BY <1>0, <2>1, <2>2 DEF NothingElseIsKept
<1> QED
  BY <1>3, <1>4, <1>5 DEF WrappersAreKnown

(* In every behaviour of any number of threads, the library finds every    *)
(* array it holds under the id of its wrapper, no two arrays share a       *)
(* wrapper, and _KNOWN_ARRAY_WRAPPERS holds no other wrapper than these    *)
(* and those of the blocks whose labels were views (data/array.py).        *)
THEOREM WrappersAreAlwaysKnown == WrappersSpec => []WrappersAreKnown
<1>1. WrappersInit => WrappersInv
  BY WrappersInitInv
<1>2. WrappersInv /\ [WrappersNext]_wrappersVars => WrappersInv'
  BY WrappersNextInv
<1>3. WrappersInv => WrappersAreKnown
  BY InvImpliesKnown
<1> QED
  BY <1>1, <1>2, <1>3, PTL DEF WrappersSpec

-----------------------------------------------------------------------------
(* The addresses and the arrays of the table, orphans included.            *)
TableTyped ==
    /\ DOMAIN table \subseteq Addresses
    /\ \A a \in DOMAIN table : table[a] \in Arrays \union {NewArray}

LEMMA TableStaysTyped == TableTyped /\ [WrappersNext]_wrappersVars => TableTyped'
<1> SUFFICES ASSUME TableTyped, [WrappersNext]_wrappersVars PROVE TableTyped'
  OBVIOUS
<1>1. ASSUME NEW array \in Arrays \union {NewArray}, NEW id, create_mts_array(array, id) PROVE TableTyped'
  BY <1>1 DEF TableTyped, create_mts_array
<1>2. ASSUME NEW arrays, _mts_array_destroy(arrays) PROVE TableTyped'
  BY <1>2 DEF TableTyped, _mts_array_destroy
<1>3. ASSUME table' = table PROVE TableTyped'
  BY <1>3 DEF TableTyped
<1>4. ASSUME NEW t \in Callers PROVE
        /\ StartBlock(t) => TableTyped'
        /\ _mts_array_create(t) => TableTyped'
        /\ CallFails(t) => TableTyped'
        /\ LabelsAreAView(t) \/ StartCall(t) \/ CallSucceeds(t) => TableTyped'
  <2>1. StartBlock(t) => TableTyped'
    BY <1>1 DEF StartBlock
  <2>2. _mts_array_create(t) => TableTyped'
    BY <1>1 DEF _mts_array_create
  <2>3. CallFails(t) => TableTyped'
    BY <1>2 DEF CallFails
  <2>4. LabelsAreAView(t) \/ StartCall(t) \/ CallSucceeds(t) => TableTyped'
    BY <1>3 DEF LabelsAreAView, StartCall, CallSucceeds
  <2> QED
    BY <2>1, <2>2, <2>3, <2>4
<1>5. AddGradient => TableTyped'
  BY <1>3 DEF AddGradient
<1>6. FreeBlock => TableTyped'
  BY <1>2 DEF FreeBlock
<1>7. UNCHANGED wrappersVars => TableTyped'
  BY <1>3 DEF wrappersVars
<1> QED
  BY <1>4, <1>5, <1>6, <1>7 DEF WrappersNext

(* The types of the table of wrappers and of everything that the library   *)
(* and its calls hold (data/array.py): an id is an address, also that of a *)
(* wrapper that nobody holds.                                              *)
THEOREM WrappersAreTyped == WrappersSpec => []WrappersTypeOK
<1>1. WrappersInit => WrappersInv /\ TableTyped
  BY WrappersInitInv DEF WrappersInit, TableTyped
<1>2. WrappersInv /\ TableTyped /\ [WrappersNext]_wrappersVars => WrappersInv' /\ TableTyped'
  BY WrappersNextInv, TableStaysTyped
<1>3. WrappersInv /\ TableTyped => WrappersTypeOK
  <2> SUFFICES ASSUME WrappersInv, TableTyped PROVE WrappersTypeOK
    OBVIOUS
  <2>1. orphans \subseteq Addresses
    BY DEF WrappersInv, TableTyped, Good
  <2>2. \A x \in Keepers : Held(x) \in Seq(Member)
    BY HoldingIsTyped DEF Holding
  <2> QED
    BY <2>1, <2>2 DEF WrappersTypeOK, TableTyped, Member
<1> QED
  BY <1>1, <1>2, <1>3, PTL DEF WrappersSpec
=============================================================================
