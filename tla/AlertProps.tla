------------------------------ MODULE AlertProps ------------------------------
(***************************************************************************)
(* What must hold of the daily alert, however its runs overlap or end.     *)
(***************************************************************************)
EXTENDS Alert

(* No two texts Twilio accepted carry the same number, however many runs   *)
(* overlap (SecurityVault.nextSequence): the recipient's verifier would    *)
(* call the second one a replay.                                           *)
UniqueNumbers ==
    \A r, s \in Run : r # s /\ texts[r] > 0 /\ texts[s] > 0 /\ number[r] # 0
                         => number[r] # number[s]

(* A run texts once at most.  A failed send is terminal, because it may    *)
(* have been accepted (SmsService.send, Scheduler.runDailyAlert).          *)
AtMostOneText == \A r \in Run : texts[r] <= 1

(* Every slot of the line belongs to the ticker at its place in the list   *)
(* the run read, and none is dropped, rate limit or not                    *)
(* (PriceService.quotesFor): a price never shows under another's name.     *)
SlotsMatchList ==
    \A r \in Run : /\ \A i \in 1..Len(quotes[r]) : quotes[r][i].ticker = asked[r][i]
                   /\ pc[r] \in {"sign", "lock", "read", "write", "release",
                                 "peek", "tag", "send", "post", "receipt"}
                         => Len(quotes[r]) = Len(asked[r])

(* Once the source says "over the limit", a run spends no more calls on it *)
(* (the short-circuit of PriceService.quotesFor).                          *)
NoCallAfterLimit ==
    [][\A r \in Run : (\E i \in 1..Len(quotes[r]) : quotes[r][i].verdict = "rate_limited")
                         => calls'[r] = calls[r]]_vars

(* The recipient sees a gap only when something was lost: every number     *)
(* ever claimed is on an accepted text, or on a run still in progress, or  *)
(* on one that died, went red or failed to send.  Debug runs use up none   *)
(* (Signer.sign).                                                          *)
GapsHaveCauses ==
    \A n \in (FirstNumber + 1)..counter :
       \E r \in Run : /\ number[r] = n /\ mode[r] = "live"
                      /\ \/ texts[r] > 0
                         \/ pc[r] \notin {"idle", "green"}
                         \/ outcome[r] = "failed"

(* Every run that starts comes to an end, whatever the webhooks do with    *)
(* the lock.                                                               *)
RunsEnd == \A r \in Run : pc[r] # "idle" ~> pc[r] \in Over
===============================================================================
