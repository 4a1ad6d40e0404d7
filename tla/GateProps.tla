------------------------------- MODULE GateProps -------------------------------
(***************************************************************************)
(* What must hold of the gate, whatever deliveries overlap or die, and one *)
(* thing its comments say that does not.                                   *)
(***************************************************************************)
EXTENDS Gate

(* A delivery is in one of the vault's sections exactly when the script    *)
(* lock is its own, and a dead one has given it back (SecurityVault over   *)
(* Locks.withScriptLock).                                                  *)
GateLockOwnership == \A x \in Delivery : pc[x] \in Inside <=> lock = x

(* The bot has taken a delivery for the recipient's own and means to carry *)
(* it out, or has.                                                         *)
LetThrough(x) == pc[x] = "serve" \/ answer[x] \in {"served", "log", "unlocked"}

(* A text Twilio delivers twice is carried out twice only when the replay  *)
(* memory had to forget it: the deliveries are SID_TTL_MS apart, or more   *)
(* than MAX_SIDS texts apart, or somebody wiped the property               *)
(* (SecurityVault.checkAndRecordSid).  A text without an id never is.      *)
RepeatsAreOld ==
    \A x, y \in Delivery : x # y /\ text[x] = text[y] /\ LetThrough(x) /\ LetThrough(y) =>
       \E i, j \in 1..Len(granted) :
          /\ {granted[i].by, granted[j].by} = {x, y}
          /\ granted[i].sid = text[x] /\ granted[j].sid = text[x]
          /\ i < j
          /\ \/ granted[j].at - granted[i].at >= Ttl
             \/ j - i > MaxSids
             \/ i <= lost

(* The recipient gets one notice for one sealing at most, though several   *)
(* failures may be on their way when the bot seals itself                  *)
(* (SecurityVault.registerFailure: justSealed).                            *)
NoticePerSeal == Cardinality({x \in Delivery : pc[x] = "notice" \/ answer[x] = "notice"}) <= seals

(* The bot is sealed once MAX_FAILURES failures are on record.  The        *)
(* exceptions are an execution that is still at it, one that died between  *)
(* the count and the seal, and one that died between re-opening the bot    *)
(* and clearing the count (SecurityVault.registerFailure, unseal).         *)
SealOnTime ==
    failures >= MaxFailures /\ ~sealed =>
       \/ lock \in Delivery /\ pc[lock] \in {"count_audit", "seal_test", "seal", "unseal_zero"}
       \/ cut \cap {"count_audit", "seal_test", "seal", "unseal_zero"} # {}

(* The stored count is the number of failures counted since it was last    *)
(* cleared: none is lost to another delivery's write.                      *)
NoFailureLost == failures = tally

(* "Unlocked and running" is never said of a bot that has been sealed all  *)
(* along: at some moment since the text arrived the bot was open           *)
(* (SecurityGate._tryUnseal: a busy lock is not a success).                *)
ConfirmationsAreTrue ==
    \A x \in Delivery : answer[x] = "unlocked" => ~sealed \/ seals > sealsAt[x]

(* What LOG shows agrees with the bot: while nobody is changing it, and    *)
(* nobody died between a change and its entry, a sealed bot's ring says so *)
(* last, and an open bot's never does.  The ring cannot have moved on:     *)
(* rejections on a sealed bot write nothing (SecurityGate), so only those   *)
(* that overlap the seal come after it.  If there can be more of them than *)
(* the ring has places (20), they do push it out.                          *)
SealEvents == {i \in 1..Len(audit) : audit[i] \in {"sealed", "unsealed"}}
SaysSealed == \E i \in SealEvents : audit[i] = "sealed" /\ \A j \in SealEvents : j <= i
AuditAgrees ==
    \/ lock \in Delivery
    \/ cut \cap {"seal_audit", "unseal_zero", "unseal_audit"} # {}
    \/ sealed <=> SaysSealed

(* A sealed bot is opened only by the recipient's word, in a text whose id *)
(* that very delivery has recorded first, so a repeated one cannot do it   *)
(* (SecurityGate._tryUnseal).                                              *)
OnlyFreshUnlockOpens ==
    [][sealed /\ ~sealed' =>
          \E x \in Delivery : /\ lock = x
                              /\ KindOf[text[x]] = "unlock"
                              /\ \E i \in 1..Len(granted) : /\ granted[i].by = x
                                                            /\ granted[i].sid = text[x]]_sealed

-----------------------------------------------------------------------------
(* SecurityVault.js: "N consecutive rejected token-valid requests - the    *)
(* bot has SEALED itself", and a success clears the count.  So when the    *)
(* bot seals itself, no text was let through among the last MAX_FAILURES   *)
(* failures.                                                               *)
SealsAreConsecutive == [][seals' > seals => streak >= MaxFailures]_seals
===============================================================================
