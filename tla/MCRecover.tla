------------------------------ MODULE MCRecover ------------------------------
(* Instance of Recover for TLC: a source of eight sectors of two units.     *)
EXTENDS Recover, TLC

Sound == [p \in 0 .. SourceSize - 1 |-> 0]
Weak(unit, times) == [Sound EXCEPT ![unit] = times]

(* A scan's file in two chunks and more, with the same candidate in two of  *)
(* them: a file inside another and one with the contents of another; and    *)
(* files that cross.                                                        *)
C(off, kind) == [off |-> off, kind |-> kind]
Nested == <<C(6, 0), C(0, 0), C(2, 1), C(10, 0), C(6, 0), C(8, 0), C(0, 0)>>
Crossed == <<C(4, 0), C(12, 7), C(0, 0), C(3, 1)>>
CarvedLengths == [off \in 0 .. 15 |-> CASE off = 0 -> 4 [] off \in {2, 4} -> 2 [] off = 3 -> 3
                                        [] off \in {6, 8, 10, 12} -> 2 [] OTHER -> 0]
Letters == [off \in 0 .. 15 |-> IF off \in {10, 11} THEN off - 4 ELSE off]

(* The MFT in two runs, units 1..2 and 8..15; two directories that are each *)
(* other's parent; a file in three runs, one of them sparse, one before the *)
(* first on the disk and across two blocks of the cache, with a DOS name, a *)
(* Win32 name and a named stream; a resident file and one with the same     *)
(* contents; an encrypted one.                                              *)
Name(ns, parent, name) == [type |-> "name", namespace |-> ns, parent |-> parent, name |-> name]
Data0(named, value, real) == [type |-> "data", named |-> named, resident |-> FALSE,
                              value |-> value, real |-> real, flags |-> {}]
Resident(value) == [type |-> "data", named |-> FALSE, resident |-> TRUE, value |-> value,
                    real |-> 0, flags |-> {}]
Rec(num, inUse, dir, attrs) ==
  [fixed |-> TRUE, num |-> num, inUse |-> inUse, dir |-> dir, attrs |-> attrs]

Records0 ==
  1 :> Rec(0, TRUE, FALSE, <<Name(3, 5, "$MFT"), Data0(FALSE, <<17, 2, 1, 17, 8, 7, 0>>, 10)>>)
  @@ 8 :> [fixed |-> FALSE]
  @@ 9 :> Rec(3, FALSE, FALSE, <<[Data0(FALSE, <<17, 1, 5>>, 1) EXCEPT !.flags = {"encrypted"}]>>)
  @@ 10 :> Rec(4, FALSE, FALSE, <<Name(1, 5, "copy"), Resident(<<40, 41>>)>>)
  @@ 12 :> Rec(6, TRUE, TRUE, <<Name(1, 7, "inner")>>)
  @@ 13 :> Rec(7, FALSE, TRUE, <<Name(0, 6, "outer")>>)
  @@ 14 :> Rec(8, FALSE, FALSE, <<Name(2, 6, "LONG~1"), Name(1, 6, "long"),
             Data0(FALSE, <<17, 1, 6, 1, 1, 17, 2, 253>>, 4), Data0(TRUE, <<17, 1, 5>>, 1)>>)
  @@ 15 :> Rec(9, FALSE, FALSE, <<Name(3, 6, "small"), Resident(<<40, 41>>),
             [type |-> "broken"], Name(1, 5, "never")>>)

GoodBoot == [magic |-> TRUE, bps |-> 512, spc |-> 1, lcn |-> 1, cpr |-> -9]
LongPath == <<"outer", "inner", "long">>
SmallPath == <<"outer", "inner", "small">>
Good == [boot |-> GoodBoot, mft |-> Records0,
         layout |-> LongPath :> <<6, Zero, 3, 4>> @@ SmallPath :> <<40, 41>>
                    @@ <<"copy">> :> <<40, 41>>,
         recordAt |-> LongPath :> 14 @@ SmallPath :> 15 @@ <<"copy">> :> 10]
Minimum == [Good EXCEPT !.boot.cpr = -128]
NoNtfs == [Good EXCEPT !.boot.magic = FALSE]

S(m, d, f, g, v) == [mode |-> m, damage |-> d, fails |-> f, given |-> g, volume |-> v]
AllSources ==
  {S("image", d, f, <<>>, Good) : d \in {"careful", "balanced", "fast"},
                                  f \in {Sound, Weak(3, Broken), Weak(9, 1)}}
  \cup {S("deep", "balanced", Sound, g, Good) : g \in {Nested, Crossed, <<>>}}
  \cup {S("quick", "careful", f, <<>>, Good) : f \in {Sound, Weak(14, Broken), Weak(6, 4)}}
  \cup {S("quick", "careful", Sound, <<>>, v) : v \in {Minimum, NoNtfs}}
=============================================================================
