---------------------------- MODULE MCSmtpQueue -----------------------------
(* Small instances of SmtpQueue for TLC.                                   *)
EXTENDS SmtpQueue, TLC

CONSTANTS n1, n2, m1, m2, w1, w2, r1, r2

MCDomainOf1 == (r1 :> 1)
MCDomainOf2 == (r1 :> 1) @@ (r2 :> 2)
MCDomainOf11 == (r1 :> 1) @@ (r2 :> 1)

MCNotifyFlags1 == (r1 :> {"failure"})
MCNotifyFlags2 == (r1 :> {"failure", "delay"}) @@ (r2 :> {"failure"})

MCRetryDelays == <<1, 2>>
MCNotifyDelays == <<1, 1>>
MCNotifyLate == <<9>>

NoQuota == << >>
SenderQuota == (0 :> 1)
DomainQuota == (1 :> 1)

Symmetry == Permutations(Nodes) \cup Permutations(Workers)
=============================================================================
