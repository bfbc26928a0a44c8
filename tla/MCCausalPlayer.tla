--------------------------- MODULE MCCausalPlayer ---------------------------
EXTENDS CausalPlayer

W(disciplined, fresh, marks, links, repeats, size, epochs, ticks) ==
    [disciplined |-> disciplined, fresh |-> fresh, marks |-> marks, links |-> links,
     repeats |-> repeats, size |-> size, epochs |-> epochs, ticks |-> ticks]

\* Honest recorders: with anchors and floors, with anchors and links, with files
\* recorded twice.  Recorders without counter discipline: one chain with stale
\* anchors and floors, and linked epochs.
MCWorlds == {W(TRUE, TRUE, {"eth", "base"}, FALSE, FALSE, 4, 2, 2),
             W(TRUE, TRUE, {"eth"}, TRUE, FALSE, 3, 2, 2),
             W(TRUE, TRUE, {}, TRUE, TRUE, 4, 2, 0),
             W(FALSE, FALSE, {"eth", "base"}, FALSE, FALSE, 3, 1, 1),
             W(FALSE, TRUE, {}, TRUE, FALSE, 4, 2, 0)}

Role(d, optional, pin) == [digest |-> d, optional |-> optional, pin |-> pin]

MCCast == [x |-> Role(1, FALSE, 0), y |-> Role(2, FALSE, 0), z |-> Role(3, FALSE, 0),
           o |-> Role(2, TRUE, 0), p |-> Role(1, FALSE, 1)]

Before(a, b) == [op |-> "before", x |-> a, y |-> b]
Not(c)       == [op |-> "not", of |-> c]

MCClaims == {Before("p", "z"),
             [op |-> "between", x |-> "y", lower |-> "x", upper |-> "z"],
             Not([op |-> "all", of |-> {Before("x", "y"), Before("y", "z")}]),
             [op |-> "any", of |-> {Before("z", "x"), Before("y", "x")}],
             [op |-> "any", of |-> {[op |-> "exists", x |-> "z"], Before("undeclared", "y")}],
             [op |-> "all", of |-> {[op |-> "exists", x |-> "x"], Not(Before("o", "x"))}]}
=============================================================================
