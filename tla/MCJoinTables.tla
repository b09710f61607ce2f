------------------------------ MODULE MCJoinTables -----------------------------
(* Joins of JoinTables for TLC.                                            *)
EXTENDS JoinTables

id == <<"id">>
x == <<"x">>
right_x == rightPrefix \o x
label_value == shadowedLabelPrefix \o metricValueColumn

(* The names in use, in byte order.                                        *)
Order == << metricNameColumn, logBodyColumn, id, label_value, right_x, metricValueColumn, x >>
ByName == {<<Order[ij[1]], Order[ij[2]]>> :
             ij \in {q \in (DOMAIN Order) \X (DOMAIN Order) : q[1] < q[2]}}

(* Texts: the empty one, and two that are one another's prefix.            *)
a == <<"a">>
aa == <<"a", "a">>
b == <<"b">>

Attrs(i, t) == [n \in {id, x} |-> IF n = id THEN i ELSE t]
Only(n, t) == [m \in {n} |-> t]

(* Two keys whose texts run together to the same text, a missing key, a    *)
(* key that is no scalar, and the names that the synthetic columns and the *)
(* prefixes shadow.                                                        *)
Plain == {Attrs(a, aa), Attrs(aa, a), Attrs(<<>>, aa), Attrs(NoText, a), Only(x, a)}
Clashing == {Put(Attrs(a, aa), metricValueColumn, b), Put(Attrs(a, b), right_x, a)}
Reserved == {Put(Put(Attrs(a, aa), metricValueColumn, b), label_value, a),
             Put(Attrs(a, aa), logBodyColumn, b)}

Reply(kind, items) == [kind |-> kind, items |-> items, columns |-> {}, notes |-> {}]
Series(attrs, points) == [name |-> <<"u">>, attrs |-> attrs, points |-> points]
Record(attrs) == [attrs |-> attrs, body |-> b]
Once == <<b>>
Twice == <<a, b>>

MetricAnswers ==
  {Reply("metrics", << Series(t, Once) >>) : t \in Plain \cup Clashing \cup Reserved}
  \cup {Reply("metrics", << Series(t, <<>>), Series(u, Twice) >>) : t, u \in Plain}
  \cup {Reply("metrics", <<>>)}
LogAnswers ==
  {Reply("logs", << Record(t), Record(u) >>) : t \in Plain, u \in Plain \cup Clashing \cup Reserved}
  \cup {[Reply("logs", << Record(Attrs(a, a)) >>) EXCEPT !.notes = {"partial"}]}
OtherAnswers ==
  { [Reply("table", << Attrs(a, aa), Only(id, a) >>) EXCEPT !.columns = {id}],
    [Reply("table", << Attrs(aa, a) >>) EXCEPT !.columns = {id, x, right_x}, !.notes = {"partial"}],
    Reply("table", << Attrs(a, TornJSON), Attrs(b, b) >>),
    Reply("traces", <<>>) }

JoinOf(op, on, ignoring, left, right) ==
  [op |-> op, on |-> on, ignoring |-> ignoring, sides |-> [left |-> left, right |-> right]]
Matchings == {<< <<id>>, {} >>, << <<id, x>>, {} >>, << <<>>, {} >>, << <<>>, {id} >>,
              << <<>>, {x, metricValueColumn} >>}

Joins ==
  {JoinOf(op, m[1], m[2], l, r) :
     op \in {"and", "unless"}, m \in Matchings,
     l \in MetricAnswers, r \in LogAnswers}
  \cup {JoinOf(op, m[1], m[2], l, r) :
     op \in {"and", "unless", "or"}, m \in Matchings,
     l \in LogAnswers \cup OtherAnswers, r \in OtherAnswers}
  \cup {JoinOf("and", m[1], m[2], l, r) :
     m \in Matchings, l \in OtherAnswers, r \in MetricAnswers}
  \cup {JoinOf("and", <<>>, {}, Reply("logs", << Record(Only(right_x, a)) >>), Reply("table", << >>))}
================================================================================
