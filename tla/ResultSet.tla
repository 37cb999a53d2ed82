------------------------------ MODULE ResultSet ------------------------------
(***************************************************************************)
(* Result sets: MyResult (mysql_simple_result.cpp) is a cursor over a      *)
(* MYSQL_RES of the client library; MysqlSimplePool::select fills it from  *)
(* the answer of a worker; SqlBuilder's select_impl and select_list_impl   *)
(* (include/sql_builder.h) turn rows into models.  An application may also *)
(* drive a MyResult of its own.  One call on the cursor a step.            *)
(***************************************************************************)
EXTENDS Integers, Sequences, SequencesExt

CONSTANTS
    Members,    \* the plain members of the model rows are read into
    Names,      \* of columns
    Cells,      \* what a column can hold
    Answers,    \* of workers: [null, data], where data is Null or [names, rows]
    MaxSets,    \* bound: result sets stored
    Default,    \* what a member starts with
    Null        \* a null pointer, and the NULL of a column

\* A set has a column at least, or the library would have stored none, and each
\* row of it as many cells as columns.
RowsFit ==
    \A answer \in Answers : ~answer.null /\ answer.data # Null =>
        LET d == answer.data
        IN  /\ d.names \in Seq(Names) /\ d.names # <<>>
            /\ d.rows \in Seq(Seq(Cells))
            /\ \A k \in DOMAIN d.rows : Len(d.rows[k]) = Len(d.names)

VARIABLES
    stored,     \* the library's result sets, in the order they were stored
    cursor,     \* the MyResult
    user,       \* whose it is: "app", "one" (select_impl), "list" (select_list_impl), "nobody"
    models,     \* what select_impl or select_list_impl has read
    asked,      \* the models there before, and the answer it works on
    ret,        \* what it returned
    wrong       \* "no", or the undefined behaviour met

setVars == <<stored, cursor, user, models, asked, ret, wrong>>

Fresh == [fields |-> <<>>, res |-> 0, row |-> 0, reused |-> FALSE]

\* mysql_free_result, through MyResult::reset; 0 is no set.
\* Mutant: reset takes what next() has drained as freed.
FreedUnread(sets, i) ==
    IF i = 0 \/ sets[i].read = Len(sets[i].rows) THEN sets ELSE [sets EXCEPT ![i].freed = @ + 1]

Freed(sets, i) == IF i = 0 THEN sets ELSE [sets EXCEPT ![i].freed = @ + 1]

-----------------------------------------------------------------------------
(* MysqlSimplePool::select(sql, res, tx)                                    *)

Failed(answer) == answer.null \/ answer.data = Null

\* Without an answer the cursor stays as it was.  init() forgets the set the
\* cursor had and adds to the fields it had; a failed statement left no set.
\* (_row still points into the old set; nobody reads it before next().)
Selected(answer, cur) ==
    LET init(res, fields) ==
            [fields |-> fields, res |-> res, row |-> 0, reused |-> cur.fields # <<>>]
    IN  IF answer.null THEN [sets |-> stored, cur |-> cur, count |-> -1]
        ELSE IF answer.data = Null THEN [sets |-> stored, cur |-> init(0, cur.fields), count |-> -1]
        ELSE [sets  |-> Append(stored, [rows |-> answer.data.rows, read |-> 0, freed |-> 0]),
              cur   |-> init(Len(stored) + 1, cur.fields \o answer.data.names),
              count |-> Len(answer.data.rows)]

-----------------------------------------------------------------------------
(* The cursor                                                               *)

\* _index stays 0, so that it is below field_count() unless there is no field;
\* the library gives a null row at the end, and of no set.
HasNext == cursor.fields # <<>> /\ cursor.res # 0
           /\ stored[cursor.res].read < Len(stored[cursor.res].rows)

TakeRow ==
    /\ HasNext
    /\ stored' = [stored EXCEPT ![cursor.res].read = @ + 1]
    /\ cursor' = [cursor EXCEPT !.row = stored[cursor.res].read + 1]

reset == stored' = Freed(stored, cursor.res) /\ cursor' = Fresh

\* The end of the rows resets the cursor.
NoMore ==
    /\ ~HasNext
    /\ IF cursor.fields = <<>> THEN UNCHANGED <<stored, cursor>> ELSE reset

\* to_model goes as far as the first column the model has no member for, where
\* it returns -1, which is true.  fetch reads past the row, or makes a string
\* of a null pointer.
Reads(fields, names) ==
    {i \in DOMAIN fields : \A j \in 1..i - 1 : fields[j] \in names}

ReadError(row) ==
    LET bad == {i \in Reads(cursor.fields, Members) : i > Len(row) \/ row[i] = Null}
    IN  IF bad = {} THEN "no"
        ELSE IF \E i \in bad : i <= Len(row) /\ \A j \in bad : i <= j THEN "null cell"
        ELSE "past the row"

\* Mutant: to_model gives a member the first column of its name.
to_modelFirst(row) ==
    [m \in Members |->
        LET at == {i \in Reads(cursor.fields, Members) : cursor.fields[i] = m}
        IN  IF at = {} THEN Default ELSE row[CHOOSE i \in at : \A j \in at : i <= j]]

to_model(row) ==
    [m \in Members |->
        LET at == {i \in Reads(cursor.fields, Members) : cursor.fields[i] = m}
        IN  IF at = {} THEN Default ELSE row[CHOOSE i \in at : \A j \in at : j <= i]]

-----------------------------------------------------------------------------
(* An application with a MyResult of its own                                *)

Declare ==
    /\ user = "nobody"
    /\ user' = "app" /\ cursor' = Fresh
    /\ UNCHANGED <<stored, models, asked, ret, wrong>>

select(answer) ==
    /\ user = "app" /\ Len(stored) < MaxSets
    /\ stored' = Selected(answer, cursor).sets
    /\ cursor' = Selected(answer, cursor).cur
    /\ UNCHANGED <<user, models, asked, ret, wrong>>

next ==
    /\ user = "app"
    /\ TakeRow \/ NoMore
    /\ UNCHANGED <<user, models, asked, ret, wrong>>

\* Of the row next() told of.
ReadRow ==
    /\ user = "app" /\ cursor.row > 0
    /\ wrong' = ReadError(stored[cursor.res].rows[cursor.row])
    /\ UNCHANGED <<stored, cursor, user, models, asked, ret>>

\* The destructor resets.
Destroy ==
    /\ user = "app"
    /\ reset
    /\ user' = "nobody"
    /\ UNCHANGED <<models, asked, ret, wrong>>

-----------------------------------------------------------------------------
(* select_impl and select_list_impl, through MysqlSimplePool::select(sql)   *)

EmptyModel == [m \in Members |-> Default]

\* No statement, or no memory for a MyResult.
Refuse ==
    /\ user = "nobody"
    /\ ret' = -1
    /\ asked' = [who |-> "nobody", before |-> <<>>, answer |-> [null |-> TRUE]]
    /\ models' = <<>>
    /\ UNCHANGED <<stored, cursor, user, wrong>>

\* if (!select(...)): of a row count, which is -1 of a failure.
HandedOut(count) == count # 0

Start(who, before, answer) ==
    LET got == Selected(answer, Fresh) IN
    /\ user = "nobody" /\ Len(stored) < MaxSets
    /\ asked' = [who |-> who, before |-> before, answer |-> answer]
    /\ models' = before
    /\ IF HandedOut(got.count)
       THEN stored' = got.sets /\ cursor' = got.cur /\ user' = who /\ UNCHANGED ret
       ELSE stored' = Freed(got.sets, got.cur.res) /\ ret' = -1 /\ UNCHANGED <<cursor, user>>
    /\ UNCHANGED wrong

Row == stored[cursor.res].rows[stored[cursor.res].read + 1]

Finish(sets, count) ==
    /\ stored' = sets /\ cursor' = Fresh
    /\ user' = "nobody" /\ ret' = count

ListRow ==
    /\ user = "list"
    /\ TakeRow
    /\ wrong' = ReadError(Row)
    /\ models' = IF wrong' = "no" THEN Append(models, to_model(Row)) ELSE models
    /\ UNCHANGED <<user, asked, ret>>

\* ret_list.size(): what was in it before is counted.
ListEnd ==
    /\ user = "list" /\ ~HasNext
    /\ Finish(Freed(stored, cursor.res), Len(models))
    /\ UNCHANGED <<models, asked, wrong>>

\* select_impl reads the first row into the model it was given, if there is one.
SelectOne ==
    /\ user = "one"
    /\ wrong' = IF HasNext THEN ReadError(Row) ELSE "no"
    /\ models' = IF HasNext /\ wrong' = "no" THEN <<to_model(Row)>> ELSE models
    /\ Finish(Freed(stored, cursor.res), 1)
    /\ UNCHANGED asked

-----------------------------------------------------------------------------
Idle ==
    /\ stored = <<>> /\ cursor = Fresh /\ user = "nobody" /\ models = <<>>
    /\ asked = [who |-> "nobody", before |-> <<>>, answer |-> [null |-> TRUE]] /\ ret = -1 /\ wrong = "no"

Next ==
    /\ wrong = "no"
    /\ \/ Declare \/ next \/ ReadRow \/ Destroy \/ ListRow \/ ListEnd \/ SelectOne \/ Refuse
       \/ \E answer \in Answers :
            \/ select(answer)
            \/ Start("one", <<EmptyModel>>, answer)
            \/ \E before \in {<<>>, <<EmptyModel>>} : Start("list", before, answer)

Spec == Idle /\ [][Next]_setVars

-----------------------------------------------------------------------------
Held == {cursor.res} \ {0}
Orphans == {i \in DOMAIN stored : stored[i].freed = 0} \ Held

\* Every result set is freed once, never while its cursor may still read it, and
\* by whoever read it to the end, reset or destroyed its cursor.  One way to lose
\* a set remains: init() on a MyResult that has not been read to its end.
SetsFreedOnce ==
    [][/\ \A i \in DOMAIN stored' : stored'[i].freed <= 1
       /\ \A i \in Held' : stored'[i].freed = 0
       /\ \A i \in Orphans' \ Orphans : i \in Held /\ user = "app" /\ Len(cursor.fields) > 0]_setVars

\* A model is a row when its members have the values of their columns (of the
\* last one, if several have the name), up to the first column no member is
\* named after.
IsRow(model, names, row) ==
    LET seen == Reads(names, Members) IN
    \A i \in seen : names[i] \in Members /\ (\A j \in seen : names[j] = names[i] => j <= i)
                     => model[names[i]] = row[i]

\* What has been selected when the cursor is gone: select_list_impl has added
\* one model for each row, in order, to those it found in the list, and
\* returns how many there are now or, only if there was no row, -1; select_impl
\* has read the first.  No row is read past its end, except by an application
\* that selects into a MyResult it has not read to the end.
ModelsAreRows ==
    /\ wrong = "past the row" => cursor.reused
    /\ asked.who \in {"one", "list"} /\ user = "nobody" /\ wrong = "no" =>
         LET n     == IF asked.who = "list" THEN Len(asked.before) ELSE 0
             rows  == IF Failed(asked.answer) THEN <<>> ELSE asked.answer.data.rows
             taken == IF asked.who = "list" THEN rows ELSE SubSeq(rows, 1, IF rows = <<>> THEN 0 ELSE 1)
         IN  /\ taken # <<>> => Len(models) = n + Len(taken) /\ ret >= 1
             /\ taken = <<>> => models = asked.before
             /\ SubSeq(models, 1, n) = SubSeq(asked.before, 1, n)
             /\ \A k \in DOMAIN taken : IsRow(models[n + k], asked.answer.data.names, taken[k])
             /\ asked.who = "list" /\ ret # -1 => ret = Len(models)

\* "-1 means failure; a value of 0 or more is, for select, the number of rows
\* returned" (docs/reference.md:531).
ReturnAsDocumented ==
    asked.who = "list" /\ asked.before = <<>> /\ user = "nobody" /\ wrong = "no" =>
        (ret = -1 <=> Failed(asked.answer))
=============================================================================
