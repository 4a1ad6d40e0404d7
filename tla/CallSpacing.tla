------------------------------ MODULE CallSpacing ------------------------------
(***************************************************************************)
(* The budget of Alpha Vantage calls in time (ADR 007): PriceService       *)
(* sleeps between the calls of one execution.  A daily run makes one call  *)
(* per ticker, an ADD command makes one; each in an execution of its own.  *)
(*                                                                         *)
(* Time goes in ticks of fifteen seconds.  Computing takes none of it: an  *)
(* execution that can go on does so before the clock does.                 *)
(***************************************************************************)
EXTENDS Naturals, FiniteSets

CONSTANTS
    Run,        \* executions of the daily alert; each happens once
    Add,        \* executions of an ADD command; each happens once
    Spacing,    \* PriceService.MIN_CALL_SPACING_MS
    Minute,     \* ticks in a minute
    PerMinute,  \* the calls Alpha Vantage allows in a minute
    MaxTickers, \* PriceService.MAX_TICKERS_PER_RUN
    MaxAsked,   \* bound on the list quotesFor is given
    Brisk,      \* the time a call takes when the service is well
    MaxLatency, \* bound on the time a call takes
    Limit,      \* the platform's limit on an execution
    MaxNow      \* bound on the clock

ASSUME SpacingAssumption ==
    /\ Run \cap Add = {}
    /\ Spacing \in Nat /\ Minute \in Nat \ {0} /\ PerMinute \in Nat
    /\ MaxTickers \in Nat /\ MaxAsked \in Nat /\ Brisk \in Nat /\ MaxLatency \in Nat
    /\ Limit \in Nat /\ MaxNow \in Nat

Exec == Run \cup Add

VARIABLES
    now,
    pc,      \* where each execution is
    began,   \* when it began
    left,    \* calls it has still to make
    resumes, \* when its sleep or its call is over
    limited, \* the answer it waits for, or has, says "over the limit"
    slow,    \* one of its calls has taken longer than Brisk (history)
    recent   \* Alpha Vantage: the calls of the last minute, by whom and when

vars == <<now, pc, began, left, resumes, limited, slow, recent>>

Running(x) == pc[x] \in {"due", "waiting"}

Init == /\ now = 0
        /\ pc = [x \in Exec |-> "idle"]
        /\ began = [x \in Exec |-> 0]
        /\ left = [x \in Exec |-> 0]
        /\ resumes = [x \in Exec |-> 0]
        /\ limited = [x \in Exec |-> FALSE]
        /\ slow = [x \in Exec |-> FALSE]
        /\ recent = {}

-----------------------------------------------------------------------------
(* A slip: an oversized list is taken as it is. *)
Unclamped(asked) == asked

(* `list.slice(0, MAX_TICKERS_PER_RUN)` *)
Clamped(asked) == IF asked > MaxTickers THEN MaxTickers ELSE asked

(* quotesFor is called: with a list, by a run; with one ticker, by an ADD.  *)
Start(x, asked) == /\ pc[x] = "idle"
                   /\ pc' = [pc EXCEPT ![x] = "due"]
                   /\ began' = [began EXCEPT ![x] = now]
                   /\ left' = [left EXCEPT ![x] = Clamped(asked)]
                   /\ resumes' = [resumes EXCEPT ![x] = now]
                   /\ UNCHANGED <<now, limited, slow, recent>>

(* PriceService._quote: the request leaves; the answer takes its time, and  *)
(* says "over the limit" when the calls of the last minute, this one among  *)
(* them, are too many.                                                      *)
Call(x) == /\ pc[x] = "due"
           /\ resumes[x] <= now
           /\ recent' = recent \cup {[by |-> x, at |-> now, left |-> left[x]]}
           /\ limited' = [limited EXCEPT ![x] = Cardinality(recent) >= PerMinute]
           /\ left' = [left EXCEPT ![x] = @ - 1]
           /\ \E d \in 0..MaxLatency : /\ resumes' = [resumes EXCEPT ![x] = now + d]
                                       /\ slow' = [slow EXCEPT ![x] = @ \/ d > Brisk]
           /\ pc' = [pc EXCEPT ![x] = "waiting"]
           /\ UNCHANGED <<now, began>>

(* A slip: there is no sleep between two calls. *)
AnswerAtOnce(x) ==
    /\ pc[x] = "waiting"
    /\ resumes[x] <= now
    /\ IF limited[x] \/ left[x] = 0
       THEN /\ pc' = [pc EXCEPT ![x] = "done"]
            /\ UNCHANGED resumes
       ELSE /\ pc' = [pc EXCEPT ![x] = "due"]
            /\ resumes' = [resumes EXCEPT ![x] = now]
    /\ UNCHANGED <<now, began, left, limited, slow, recent>>

(* The answer is there.  A limited run, or a finished one, makes no more    *)
(* calls; any other sleeps before the next.                                 *)
Answer(x) ==
    /\ pc[x] = "waiting"
    /\ resumes[x] <= now
    /\ IF limited[x] \/ left[x] = 0
       THEN /\ pc' = [pc EXCEPT ![x] = "done"]
            /\ UNCHANGED resumes
       ELSE /\ pc' = [pc EXCEPT ![x] = "due"]
            /\ resumes' = [resumes EXCEPT ![x] = now + Spacing]
    /\ UNCHANGED <<now, began, left, limited, slow, recent>>

(* The platform ends an execution that has had its time. *)
Kill(x) == /\ Running(x)
           /\ now - began[x] >= Limit
           /\ pc' = [pc EXCEPT ![x] = "killed"]
           /\ UNCHANGED <<now, began, left, resumes, limited, slow, recent>>

(* The clock goes on when every execution sleeps or waits. *)
Tick == /\ now < MaxNow
        /\ \A x \in Exec : Running(x) => now < resumes[x] /\ now - began[x] < Limit
        /\ now' = now + 1
        /\ recent' = {c \in recent : c.at + Minute > now'}
        /\ UNCHANGED <<pc, began, left, resumes, limited, slow>>

Next == \/ \E x \in Run : \E asked \in 1..MaxAsked : Start(x, asked)
        \/ \E x \in Add : Start(x, 1)
        \/ \E x \in Exec : Call(x) \/ Answer(x) \/ Kill(x)
        \/ Tick

Spec == Init /\ [][Next]_vars
===============================================================================
