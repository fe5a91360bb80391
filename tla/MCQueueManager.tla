--------------------------- MODULE MCQueueManager ---------------------------
(* Small instances of QueueManager for TLC.                                *)
EXTENDS QueueManager, TLC

CONSTANTS n1, n2, m1, m2, w1, w2, r1

MCDomainOf1 == (r1 :> 1)
MCNotifyFlags1 == (r1 :> {"failure"})
MCRetryDelays == <<1>>
MCNotifyLate == <<9>>
NoQuota == << >>
TwoOfSender == (0 :> 2)

Unlimited == [l \in Limiters |-> None]
OneSender == [l \in Limiters |-> IF l = SenderLimiter THEN 1 ELSE None]
OneEach == [l \in Limiters |-> 1]
=============================================================================
