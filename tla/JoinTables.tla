------------------------------ MODULE JoinTables -------------------------------
(***************************************************************************)
(* The in-process join of the cross-signal connector (join.go): the two    *)
(* sides' results become relational tables, the join keys are resolved,    *)
(* and the matching rows are merged (AND) or removed (UNLESS).  A door may *)
(* then have the table laid out in rows of cells (qdata.RenderTable).      *)
(*                                                                         *)
(* A column name is a sequence of parts, so that a prefix is part of the   *)
(* name it makes: "right_x" is <<"right", "x">>.  A value is the text that *)
(* valueString makes of it, a sequence of characters, or NoText when it    *)
(* makes none.  A row is a function from its columns to values.  Columns   *)
(* are kept as sets: their order only matters to whoever displays them.    *)
(***************************************************************************)
EXTENDS Naturals, Sequences, FiniteSets

CONSTANTS
  Input,    (* The joins to perform: [op, on, ignoring, sides], where a    *)
            (* side is [kind, items, columns, notes]: what the storage     *)
            (* answered, and the notifications that came with it.          *)
            (* A series is [name, attrs, points], a record [attrs, body],  *)
            (* and the rows of a "table" stand for themselves.             *)
  NoText,   (* A value that is not a scalar, or not set.                   *)
  TornJSON, (* A raw JSON value whose text is not JSON.                    *)
  NameLess  (* Column names in the order in which slices.Sort puts them.   *)

Side == {"left", "right"}
metricNameColumn == <<"__name__">>
metricValueColumn == <<"value">>
logBodyColumn == <<"body">>
shadowedLabelPrefix == <<"label">>
rightPrefix == <<"right">>
keyDelim == "NUL"
truncated == "series_truncated"

(* What names and texts are made of.                                       *)
Part == STRING \cup {keyDelim}

(* The text that jsonCell makes of a raw JSON value that is not valid.     *)
Quoted == <<"quoted">>

VARIABLES
  input,
  stage,     (* What comes next: "done" when joined, "rendered" when the   *)
             (* table was laid out, or "refused".                          *)
  tables,    (* Of each side: [columns, rows], once it is normalized.      *)
  notes,     (* The notifications on each side's result.                   *)
  keys,      (* The join keys, in order.                                   *)
  pending,   (* The pairs of matching rows still to be merged.             *)
  joined,    (* The result: [columns, rows, notes], the rows by the pair   *)
             (* of row numbers, the second 0 for a row that UNLESS keeps.  *)
  wire       (* The table as RenderTable lays it out, [columns, rows].     *)

vars == <<input, stage, tables, notes, keys, pending, joined, wire>>

NoRows == [p \in {} |-> <<>>]
NoTable == [columns |-> {}, rows |-> <<>>]
NoWire == [columns |-> {}, rows |-> NoRows]

Init ==
  /\ input \in Input
  /\ stage = "mode"
  /\ tables = [side \in Side |-> NoTable]
  /\ notes = [side \in Side |-> {}]
  /\ keys = <<>>
  /\ pending = {}
  /\ joined = [columns |-> {}, rows |-> NoRows, notes |-> {}]
  /\ wire = NoWire

--------------------------------------------------------------------------------
(* From a result to a table (resultToTable).                               *)

(* AttrPut and AttrDelete. *)
Put(row, name, value) ==
  [n \in DOMAIN row \cup {name} |-> IF n = name THEN value ELSE row[n]]
Without(row, name) == [n \in DOMAIN row \ {name} |-> row[n]]

(* A mutation: a label named "value" is clobbered by the sample. *)
ClobberingPutSample(row, sample) == Put(row, metricValueColumn, sample)

PutSample(row, sample) ==
  LET moved == IF metricValueColumn \notin DOMAIN row THEN row
               ELSE Put(Without(row, metricValueColumn),
                        shadowedLabelPrefix \o metricValueColumn, row[metricValueColumn])
  IN  Put(moved, metricValueColumn, sample)

LatestValue(series) ==
  IF series.points = <<>> THEN NoText ELSE series.points[Len(series.points)]

MetricRow(series) ==
  PutSample(IF series.name = <<>> \/ metricNameColumn \in DOMAIN series.attrs
            THEN series.attrs ELSE Put(series.attrs, metricNameColumn, series.name),
            LatestValue(series))

LogRow(record) == Put(record.attrs, logBodyColumn, record.body)

UnionColumns(rows) == UNION {DOMAIN rows[i] : i \in DOMAIN rows}

Rows(side) ==
  [i \in DOMAIN side.items |->
     CASE side.kind = "metrics" -> MetricRow(side.items[i])
       [] side.kind = "logs"    -> LogRow(side.items[i])
       [] side.kind = "table"   -> side.items[i]]

ResultToTable(side) ==
  [columns |-> side.columns \cup UnionColumns(Rows(side)), rows |-> Rows(side)]

Tabled(side) == side.kind \in {"metrics", "logs", "table"}

(* What the storages answer.  A cell is a text, in which keyDelim is       *)
(* "chosen to not appear", or none; a name is not empty, and is one that   *)
(* NameLess orders.                                                        *)
Name == UNION {{pair[1], pair[2]} : pair \in NameLess}
IsText(value) ==
  /\ value \in Seq(Part)
  /\ \A c \in DOMAIN value : value[c] # keyDelim
AttrsOf(side, i) == IF side.kind = "table" THEN side.items[i] ELSE side.items[i].attrs
ASSUME NamesAssumption == IsFiniteSet(Name) /\ Name \subseteq Seq(Part) \ {<<>>}
ASSUME CellsAssumption == TornJSON \notin {NoText, Quoted}
ASSUME InputAssumption ==
  \A in \in Input :
    /\ in.on \in Seq(Seq(Part))
    /\ \A s \in Side :
         LET side == in.sides[s]
         IN  Tabled(side) =>
               /\ ResultToTable(side).columns \subseteq Name
               /\ \A i \in DOMAIN side.items : \A n \in DOMAIN Rows(side)[i] :
                    Rows(side)[i][n] \in {NoText, TornJSON} \/ IsText(Rows(side)[i][n])

(* warnIfTruncated *)
IsTruncated(side) ==
  side.kind = "metrics" /\ \E i \in DOMAIN side.items : Len(side.items[i].points) > 1

--------------------------------------------------------------------------------
(* Keys and matching.                                                      *)

(* The elements of a set of columns as slices.Sort orders them: the i-th   *)
(* is the one that i - 1 of them precede.                                  *)
Sorted(columns) ==
  [i \in 1 .. Cardinality(columns) |->
     CHOOSE c \in columns : Cardinality({d \in columns : <<d, c>> \in NameLess}) = i - 1]

(* resolveKeys: `on`, else the shared columns but those ignored.           *)
ResolvedKeys ==
  IF input.on # <<>> THEN input.on
  ELSE Sorted((tables.left.columns \cap tables.right.columns) \ input.ignoring)

KeyColumns == {keys[i] : i \in DOMAIN keys}

(* valueString: what is not a scalar has no text to join by. *)
Joinable(value) == value \notin {NoText, TornJSON}

HasKey(row) == \A k \in KeyColumns : k \in DOMAIN row /\ Joinable(row[k])

(* A mutation: the values of the key are joined without a delimiter. *)
UndelimitedKeyTuple(row) ==
  LET upTo[i \in 0 .. Len(keys)] == IF i = 0 THEN <<>> ELSE upTo[i - 1] \o row[keys[i]]
  IN  upTo[Len(keys)]

(* keyTuple, of a row that has one. *)
KeyTuple(row) ==
  LET upTo[i \in 1 .. Len(keys)] ==
        IF i = 1 THEN row[keys[1]] ELSE upTo[i - 1] \o <<keyDelim>> \o row[keys[i]]
  IN  upTo[Len(keys)]

(* indexRows: the numbers of the right rows with each key tuple. *)
Index ==
  LET keyed == {j \in DOMAIN tables.right.rows : HasKey(tables.right.rows[j])}
  IN  [t \in {KeyTuple(tables.right.rows[j]) : j \in keyed} |->
         {j \in keyed : KeyTuple(tables.right.rows[j]) = t}]

(* The right rows that the index holds for a left row. *)
MatchesOf(row) ==
  IF HasKey(row) /\ KeyTuple(row) \in DOMAIN Index THEN Index[KeyTuple(row)] ELSE {}

--------------------------------------------------------------------------------
(* Merging.                                                                *)

Renamed(name) == IF name \in tables.left.columns THEN rightPrefix \o name ELSE name

(* The rows mergeRow can build of a pair.  Right columns are put in the    *)
(* order in which the row carries them, which for a series is the order of *)
(* a Go map: of two that end up under one name, either may be last.        *)
MergedRows(l, r) ==
  LET others == DOMAIN r \ KeyColumns
      names == {Renamed(n) : n \in others}
      Last == {f \in [names -> others] : \A n \in names : Renamed(f[n]) = n}
  IN  {[n \in DOMAIN l \cup names |-> IF n \in names THEN r[f[n]] ELSE l[n]] : f \in Last}

(* A mutation: clashes are renamed in the rows and not in the schema. *)
UnrenamedColumns == tables.left.columns \cup (tables.right.columns \ KeyColumns)

MergedColumns ==
  tables.left.columns \cup {Renamed(n) : n \in tables.right.columns \ KeyColumns}

--------------------------------------------------------------------------------

Refuse == stage' = "refused" /\ UNCHANGED <<input, tables, notes, keys, pending, joined, wire>>

(* joinModeFor *)
ChooseMode ==
  /\ stage = "mode"
  /\ IF input.op \in {"and", "unless"}
     THEN stage' = "left" /\ UNCHANGED <<input, tables, notes, keys, pending, joined, wire>>
     ELSE Refuse

(* execSide, when the side's pipeline has answered. *)
Normalize(side, next) ==
  LET answer == input.sides[side]
  IN  /\ stage = side
      /\ IF ~Tabled(answer) THEN Refuse
         ELSE /\ tables' = [tables EXCEPT ![side] = ResultToTable(answer)]
              /\ notes' = [notes EXCEPT
                   ![side] = answer.notes \cup (IF IsTruncated(answer) THEN {truncated} ELSE {})]
              /\ stage' = next
              /\ UNCHANGED <<input, keys, pending, joined, wire>>

(* A mutation: nothing in common makes a cross product. *)
CrossProduct ==
  /\ stage = "keys"
  /\ keys' = ResolvedKeys
  /\ stage' = "index"
  /\ UNCHANGED <<input, tables, notes, pending, joined, wire>>

ResolveKeys ==
  /\ stage = "keys"
  /\ IF ResolvedKeys = <<>> THEN Refuse
     ELSE /\ keys' = ResolvedKeys
          /\ stage' = "index"
          /\ UNCHANGED <<input, tables, notes, pending, joined, wire>>

InnerJoin ==
  /\ stage = "index" /\ input.op = "and"
  /\ pending' = UNION {{i} \X MatchesOf(tables.left.rows[i]) : i \in DOMAIN tables.left.rows}
  /\ joined' = [joined EXCEPT !.columns = MergedColumns]
  /\ stage' = "rows"
  /\ UNCHANGED <<input, tables, notes, keys, wire>>

(* The next pair of innerJoin's two loops. *)
MergeRow ==
  /\ stage = "rows"
  /\ \E p \in pending :
       /\ \A q \in pending : p[1] < q[1] \/ (p[1] = q[1] /\ p[2] <= q[2])
       /\ pending' = pending \ {p}
       /\ \E row \in MergedRows(tables.left.rows[p[1]], tables.right.rows[p[2]]) :
            joined' = [joined EXCEPT !.rows = Put(@, p, row)]
  /\ UNCHANGED <<input, stage, tables, notes, keys, wire>>

Kept == {i \in DOMAIN tables.left.rows : MatchesOf(tables.left.rows[i]) = {}}

AntiJoin ==
  /\ stage = "index" /\ input.op = "unless"
  /\ joined' = [joined EXCEPT !.columns = tables.left.columns,
                              !.rows = [p \in Kept \X {0} |-> tables.left.rows[p[1]]]]
  /\ stage' = "rows"
  /\ UNCHANGED <<input, tables, notes, keys, pending, wire>>

(* A mutation: only the left side's notifications are merged. *)
LeftFeedback == notes.left

Feedback == notes.left \cup notes.right

(* mergeFeedback, once all rows are joined. *)
MergeFeedback ==
  /\ stage = "rows" /\ pending = {}
  /\ joined' = [joined EXCEPT !.notes = Feedback]
  /\ stage' = "done"
  /\ UNCHANGED <<input, tables, notes, keys, pending, wire>>

--------------------------------------------------------------------------------
(* The layout of the table.  The doors that call RenderTable take queries  *)
(* of one signal, so with the components at hand a joined table leaves by  *)
(* OTQP, which encodes the table itself; RenderTable is for any table.     *)

(* A mutation: raw JSON is passed through unseen. *)
RawCell(value) == value

(* ValueJSON: every value keeps its type, and jsonCell makes a plain text  *)
(* of JSON that is none.                                                   *)
Cell(value) == IF value = TornJSON THEN Quoted ELSE value

(* A column that a row lacks is null. *)
RenderedRow(row, columns) ==
  [c \in columns |-> Cell(IF c \in DOMAIN row THEN row[c] ELSE NoText)]

(* tableColumns *)
ShownColumns == joined.columns \cup UNION {DOMAIN joined.rows[p] : p \in DOMAIN joined.rows}

RenderedTable ==
  [columns |-> ShownColumns,
   rows |-> [p \in DOMAIN joined.rows |-> RenderedRow(joined.rows[p], ShownColumns)]]

Render ==
  /\ stage = "done"
  /\ stage' = "rendered"
  /\ wire' = RenderedTable
  /\ UNCHANGED <<input, tables, notes, keys, pending, joined>>

Done == stage \in {"rendered", "refused"} /\ UNCHANGED vars

Next ==
  \/ ChooseMode
  \/ Normalize("left", "right") \/ Normalize("right", "keys")
  \/ ResolveKeys
  \/ InnerJoin \/ MergeRow \/ AntiJoin
  \/ MergeFeedback
  \/ Render
  \/ Done

Spec == Init /\ [][Next]_vars

--------------------------------------------------------------------------------
(* Properties.                                                             *)

Stage ==
  {"mode", "left", "right", "keys", "index", "rows", "done", "rendered", "refused"}
(* The join's variables keep their types: every pair still to be merged,   *)
(* or merged, is of rows that exist.                                       *)
TypeOK ==
  LET Left == DOMAIN tables.left.rows
      Right == DOMAIN tables.right.rows
  IN  /\ stage \in Stage
      /\ DOMAIN tables = Side /\ DOMAIN notes = Side
      /\ pending \subseteq Left \X Right
      /\ DOMAIN joined.rows \subseteq Left \X (Right \cup {0})
      /\ stage \in {"index", "rows", "done", "rendered"} => keys # <<>>
      /\ stage = "rendered" => DOMAIN wire.rows = DOMAIN joined.rows

(* Every table's schema covers its rows, at each side and in the answer:   *)
(* the clash detection of mergeRow and mergedColumns relies on the one and *)
(* whoever reads the answer by its columns on the other.                   *)
SchemaCoversRows ==
  /\ \A side \in Side : UnionColumns(tables[side].rows) \subseteq tables[side].columns
  /\ \A p \in DOMAIN joined.rows : DOMAIN joined.rows[p] \subseteq joined.columns

(* The rows agree on every key, value by value.                            *)
Agree(l, r) ==
  \A i \in DOMAIN keys :
    keys[i] \in DOMAIN l \cap DOMAIN r /\ l[keys[i]] = r[keys[i]] /\ Joinable(l[keys[i]])

(* AND answers each pair of rows that agree on the keys, and UNLESS each   *)
(* left row that agrees with no right row: the text of the key tuple       *)
(* confuses no two keys, and a row without a key is neither matched nor    *)
(* lost.                                                                   *)
JoinsRowsThatAgree ==
  LET L == tables.left.rows
      R == tables.right.rows
  IN  stage = "done" =>
        DOMAIN joined.rows =
          IF input.op = "and"
          THEN {p \in (DOMAIN L) \X (DOMAIN R) : Agree(L[p[1]], R[p[2]])}
          ELSE {i \in DOMAIN L : \A j \in DOMAIN R : ~Agree(L[i], R[j])} \X {0}

(* What the storages reported reaches the client, and so does the fact     *)
(* that a series, of either side, was reduced to its latest point.         *)
WarningsSurviveTheJoin ==
  stage = "done" =>
    \A side \in Side :
      /\ input.sides[side].notes \subseteq joined.notes
      /\ input.sides[side].kind = "metrics" =>
           \A i \in DOMAIN input.sides[side].items :
             Len(input.sides[side].items[i].points) > 1 => truncated \in joined.notes

(* The names a storage must not use if a join is to keep columns apart: a  *)
(* log attribute called body, and those that the prefixes make of others.  *)
Unambiguous ==
  \A side \in Side : \A i \in DOMAIN input.sides[side].items :
    \A n \in DOMAIN AttrsOf(input.sides[side], i) :
      /\ input.sides[side].kind = "logs" => n # logBodyColumn
      /\ Len(n) > 1 => <<n[1]>> \notin {rightPrefix, shadowedLabelPrefix}

(* Given such names, nothing is lost between the storages' attributes and  *)
(* the answer: a pair shows every left attribute, and every right one that *)
(* is no join key, under its own name or the one that the prefixes make.   *)
ColumnOf(side, name) ==
  IF side.kind = "metrics" /\ name = metricValueColumn
  THEN shadowedLabelPrefix \o name ELSE name
UnambiguousNamesKeepEveryAttribute ==
  LET l == input.sides.left
      r == input.sides.right
      Shows(row, column, value) == column \in DOMAIN row /\ row[column] = value
  IN  stage = "done" /\ Unambiguous =>
        \A p \in DOMAIN joined.rows :
          /\ \A n \in DOMAIN AttrsOf(l, p[1]) :
               Shows(joined.rows[p], ColumnOf(l, n), AttrsOf(l, p[1])[n])
          /\ p[2] # 0 => \A n \in DOMAIN AttrsOf(r, p[2]) :
               ColumnOf(r, n) \notin KeyColumns =>
                 Shows(joined.rows[p], Renamed(ColumnOf(r, n)), AttrsOf(r, p[2])[n])

(* The layout shows the joined table whole, a row for each joined row and  *)
(* in it every value the row has, and no cell, whatever JSON the storages  *)
(* put in one, keeps the others from being encoded.                        *)
RenderingShowsEveryCell ==
  stage = "rendered" =>
    \A p \in DOMAIN joined.rows :
      /\ \A n \in DOMAIN joined.rows[p] :
           /\ n \in wire.columns
           /\ joined.rows[p][n] # TornJSON => wire.rows[p][n] = joined.rows[p][n]
      /\ \A c \in wire.columns : wire.rows[p][c] # TornJSON
================================================================================
