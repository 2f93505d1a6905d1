------------------------------- MODULE MCAcesso -------------------------------
\* One address, two e-mails; windows of three instants, an instant late by one.
EXTENDS Acesso, TLC

CONSTANTS a1, e1, e2, p1, p2, o1, o2

MCLimite == [l \in {"ip", "identidade"} |-> IF l = "ip" THEN 2 ELSE 1]
MCChave  == {a1, <<"admin", e1>>, <<"admin", e2>>} \cup {<<"admin-senha", i>> : i \in 1..MaxContas}
MCAnteriores == <<e1, e2>>
Simetria == Permutations({p1, p2}) \cup Permutations({o1, o2})
=============================================================================
