------------------------------- MODULE MCJson -------------------------------
(* Texts for the models: a value is the list of the items it is written as, *)
(* which is put one level deeper in what contains it.                        *)
EXTENDS Json

\* The items of all, one behind the other.
Joined(vs) ==
    LET f[k \in 0 .. Len(vs)] == IF k = 0 THEN <<>> ELSE f[k - 1] \o vs[k] IN f[Len(vs)]

Deeper(items) == [i \in 1 .. Len(items) |-> [items[i] EXCEPT !.depth = @ + 1]]

Number(n)  == <<Item(0, "num", IF n < 0 THEN "sint" ELSE "uint", n)>>
Real    == <<Item(0, "num", "real", 1)>>
True    == <<Item(0, "bool", "true", 0)>>
Str(s)  == <<Item(0, "str", "none", s)>>
Arr(vs) == <<Item(0, "arr", "none", 0)>> \o Deeper(Joined(vs))
Members(ms) == <<Item(0, "obj", "none", 0)>> \o Deeper(Joined(ms))

\* A member of an object.
Of(name, value) == Str(name) \o value
=============================================================================
