-------------------------- MODULE MCCloneOperation --------------------------
(* An instance of CloneOperation: a Windows disk whose last volume is      *)
(* beyond a smaller destination, with recovery behind it, one with a second*)
(* volume before the first, one too full to reduce, and a secondary disk;  *)
(* a destination as large and one smaller; a disk that may be connected    *)
(* instead of one; and each fault, alone or with one that follows it.      *)
EXTENDS CloneOperation

Hard(slot, id, size, letters) ==
  [slot |-> slot, id |-> id, size |-> size, sector |-> 1, known |-> TRUE, verified |-> TRUE,
   system |-> FALSE, readonly |-> FALSE, letters |-> letters]
Part(num, off, size, kind, letter, used) ==
  [num |-> num, off |-> off, size |-> size, kind |-> kind, letter |-> letter, used |-> used,
   min |-> used]
Machine(source, style, parts) ==
  [attached |-> [s |-> source, big |-> Hard("big", "ssd12", 12, <<"X">>),
                 small |-> Hard("small", "ssd9", 9, <<>>)],
   layout |-> [style |-> style, parts |-> parts]]
Windows(size, letters) == [Hard("s", "hdd", size, letters) EXCEPT !.system = TRUE]

Tiny == Hard("tiny", "ssd7", 7, <<>>)
AllMachines ==
  {[Machine(Windows(12, <<"C:">>), "GPT",
     {Part(1, 1, 1, "other", "", 0), Part(2, 2, 6, "ntfs", "C:", 0),
      Part(3, 8, 2, "recovery", "", 0)}) EXCEPT !.attached = [s |-> @.s, small |-> @.small, tiny |-> Tiny]],
   Machine(Windows(12, <<"C:">>), "GPT",
     {Part(1, 1, 1, "other", "", 0), Part(2, 2, 6, "ntfs", "C:", 2),
      Part(3, 8, 2, "recovery", "", 0)}),
   Machine(Windows(10, <<"C:", "D:">>), "GPT",
     {Part(1, 1, 1, "ntfs", "D:", 0), Part(2, 2, 6, "ntfs", "C:", 2)}),
   Machine(Windows(10, <<"C:">>), "MBR",
     {Part(1, 1, 1, "other", "", 0), Part(2, 2, 6, "ntfs", "C:", 4)}),
   Machine(Hard("s", "hdd", 10, <<"E:">>), "MBR", {Part(1, 1, 8, "ntfs", "E:", 3)})}
Together ==
  {{f} : f \in FaultKinds} \cup
  {{"restore", f} : f \in {"resize", "cancel", "lock"}} \cup
  {{"quit", "grow"}, {"quit", "plan"}, {"swap", "lock"}, {"vss", "panic"}}
Spare == {Hard("none", "spare", 12, <<>>)}

(* A secondary disk, and nothing but exchanged disks.                      *)
Secondary == {m \in AllMachines : ~m.attached[Source].system}
Exchanges == {{"swap"}}
=============================================================================
