----------------------------- MODULE MCKexinit ------------------------------
EXTENDS Kexinit

\* A name as it is sent, the name it stands for, and whether that is one.
Plain(name) == [raw |-> name, name |-> name, valid |-> TRUE]

a == Plain(<<97>>)
b == Plain(<<98>>)
wide == Plain(<<97, 64>>)
split == Plain(<<97, 59>>)
none == [raw |-> <<>>, name |-> <<>>, valid |-> TRUE]
blank == [raw |-> <<32, 9>>, name |-> <<>>, valid |-> TRUE]
padded == [raw |-> <<32, 98, 32>>, name |-> <<98>>, valid |-> TRUE]
control == [raw |-> <<97, 127>>, name |-> <<97, 127>>, valid |-> FALSE]
inner == [raw |-> <<97, 32, 98>>, name |-> <<97, 32, 98>>, valid |-> FALSE]
long == [raw |-> <<97, 97, 97, 97>>, name |-> <<97, 97, 97, 97>>, valid |-> FALSE]

Lists == {<<>>, <<a>>, <<a, b>>, <<b, a>>, <<wide, none>>, <<blank, padded>>, <<split>>,
          <<a, control>>, <<inner>>, <<long>>, <<a, none, none, b>>}

Usual ==
  [before |-> <<>>, line |-> Marker \o <<50>>, type |-> 20,
   lists |-> [i \in 1..10 |-> IF i > 8 THEN <<>> ELSE <<a>>], cut |-> 0, padding |-> 4, after |-> <<0>>]

\* Any two of these lists at a time.
ManyLists ==
  {[Usual EXCEPT !.lists[f] = x, !.lists[g] = y] :
     f \in {1, 2, 3}, g \in {3, 4, 7, 10}, x \in Lists, y \in Lists}

ManyFrames ==
  {[Usual EXCEPT !.before = before, !.line = line, !.type = type, !.cut = cut,
                 !.padding = padding, !.after = after] :
     before \in {<<>>, <<83, 83>>, <<65, 13, 10>>, <<65>> \o Marker \o <<13, 10>>},
     line \in {Marker, Marker \o <<50, 13, 50, 10, 13>>, <<72, 105>>},
     type \in {20, 21}, cut \in {0, 1, 4, 5, 8, 68}, padding \in {3, 4, 12},
     after \in {<<>>, <<0, 0, 0>>}}

MCHellos == ManyLists \cup ManyFrames
=============================================================================
