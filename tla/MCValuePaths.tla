----------------------------- MODULE MCValuePaths -----------------------------
(* Tables of two columns and three rows: each type of column with the values at its *)
(* edges, before and after a column of another width, with NULLs in either.         *)
EXTENDS ValuePaths

Of(is, cells) == {DbValue(is, fields) : fields \in cells}
Type(base, args) == Column(base, args, "", FALSE)

Samples ==
  {<<Type("tinyint", <<4>>), Of("int", {<<-3>>, <<127>>})>>,
   <<Column("tinyint", <<3>>, "unsigned", FALSE), Of("int", {<<5>>, <<200>>})>>,
   <<Type("tinyint", <<1>>), Of("int", {<<1>>, <<2>>})>>,
   <<Type("smallint", <<6>>), Of("int", {<<-300>>})>>,
   <<Column("smallint", <<5>>, "unsigned", FALSE), Of("int", {<<200>>, <<40000>>})>>,
   <<Type("mediumint", <<9>>), Of("int", {<<-1>>, <<70000>>})>>,
   <<Type("bigint", <<20>>), Of("int", {<<-1>>, <<1, 5>>})>>,
   <<Type("year", <<4>>), Of("int", {<<0>>, <<2024>>})>>,
   <<Type("float", <<>>), Of("decimal", {<<15, -1>>, <<1234567, 0>>, <<78125, -7>>})>>,
   <<Type("double", <<>>), Of("decimal", {<<5, -1>>, <<12345675, -1>>, <<78125, -7>>, <<1, 12>>,
                                    <<16777217, 0>>, <<1234567891, 0>>, <<1, -50>>,
                                    <<3402823, 32>>, <<3402824, 32>>, <<1, 39>>})>>,
   <<Type("decimal", <<10, 2>>), Of("decimal", {<<0, 0>>, <<125, -1>>, <<1234567, -2>>,
                                           <<-1234567, -2>>, <<12345678, -2>>})>>,
   <<Type("date", <<>>), Of("date", {<<2024, 2, 29>>, <<0, 0, 0>>})>>,
   <<Type("datetime", <<6>>), Of("datetime", {<<2024, 1, 5, 23, 30, 5, 7>>})>>,
   <<Column("datetime", <<>>, "", TRUE), Of("datetime", {<<2024, 12, 31, 23, 59, 59>>})>>,
   <<Type("time", <<>>), Of("time", {<<12, 30, 5>>, <<24, 0, 0>>, <<24, 0, 1>>, <<30, 0, 0>>,
                                <<56, 0, 0>>, <<56, 0, 1>>, <<100, 0, 0>>, <<300, 0, 0>>,
                                <<1, 0, 0, -1>>, <<10, 0, 0, -1>>, <<10, 0, 1, -1>>})>>,
   <<Column("time", <<>>, "", TRUE), Of("time", {<<12, 30, 5>>, <<24, 0, 0>>, <<24, 0, 1>>, <<100, 0, 0>>})>>,
   <<Type("timestamp", <<>>), Of("datetime", {<<2024, 1, 5, 12, 30, 5>>})>>,
   <<Type("char", <<4>>), Of("string", {<<97, 98>>, <<97, 98, 97, 98>>})>>,
   <<Type("varchar", <<4>>), Of("string", {<<>>, <<92, 110>>, <<97, 92>>, <<9, 10>>, <<0>>})>>,
   <<Type("varbinary", <<4>>), Of("blob", {<<0, 92, 255>>})>>,
   <<Type("binary", <<2>>), Of("blob", {<<1, 2>>})>>,
   <<Type("text", <<>>), Of("string", {<<98>>})>>,
   <<Type("tinyblob", <<>>), Of("blob", {<<0, 9>>})>>,
   <<Type("enum", <<>>), Of("enum", {<<2, 98>>})>>,
   <<Type("set", <<>>), Of("string", {<<1>>})>>,
   <<Type("bit", <<1>>), Of("int", {<<1>>})>>}

Witnesses ==
  {<<Type("varchar", <<300>>), Of("string", {<<97, 9>>})>>,
   <<Type("datetime", <<>>), Of("datetime", {<<2024, 1, 5, 12, 30, 5>>})>>,
   <<Type("int", <<11>>), Of("int", {<<-70000>>})>>,
   <<Type("longblob", <<>>), Of("blob", {<<7>>})>>}

Images == {<<1, 1>>, <<0, 1>>, <<1, 0>>}

TableOf(A, B, a, b, copied, image, reader) ==
  [columns |-> <<A, B>>, rows |-> <<<<a, b>>, <<a, Null>>, <<Null, b>>>>,
   copied |-> copied, image |-> image, reader |-> reader]

PairsOf(s, w) ==
  UNION {{<<s[1], w[1], a, b>>, <<w[1], s[1], b, a>>} : a \in s[2], b \in w[2]}

Pairs == UNION {PairsOf(s, w) : s \in Samples \union Witnesses, w \in Witnesses}

MCTables ==
  {TableOf(p[1], p[2], p[3], p[4], k, <<1, 1>>, "last") : p \in Pairs, k \in 0..3}
    \union {TableOf(p[1], p[2], p[3], p[4], 0, i, "by_id") : p \in Pairs, i \in Images}
    \union {TableOf(p[1], p[2], p[3], p[4], 1, <<0, 1>>, "last") : p \in Pairs}

MCStreams == {StreamOf(t) : t \in MCTables}
=============================================================================
