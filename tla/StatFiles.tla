------------------------------ MODULE StatFiles ------------------------------
(* How the library reads the statistics files of a cgroup: one operator for
   each of its parsers, on the text of a file.

   A text is a sequence of lines and a line a sequence of tokens, what is left
   of it when it is split at blanks.  A token is a number, a word, a device
   "8:16" or a pair "rbytes=180".  A parser returns Ok(v), Err, or Panic where
   the code unwraps an error. *)
EXTENDS Integers, Sequences, SequencesExt

CONSTANTS
  NoLimit,  \* MaxValue::Max, the value of a file that says "max"
  I16Max,   \* the largest number of the type of device numbers, 32767
  Kilo      \* the factor between the units of sizes, 1024

ASSUME KiloAssumption == Kilo \in Nat \ {0, 1}

Num(n) == <<"num", n>>
Word(w) == <<"word", w>>
Dev(d) == <<"dev", d>>
Pair(k, n) == <<"pair", k, n>>
One(t) == << <<t>> >>

Ok(v) == <<"ok", v>>
Err == <<"err">>
Panic == <<"panic">>
UnwrapOr(r, default) == IF r = Err THEN default ELSE r[2]

IsU64(t) == t[1] = "num" /\ t[2] >= 0
IsI64(t) == t[1] = "num"
FitsI16(d) == d[1] <= I16Max /\ d[2] <= I16Max
IsSingle(c) == Len(c) = 1 /\ Len(c[1]) = 1

read_u64_from(c) == IF IsSingle(c) /\ IsU64(c[1][1]) THEN Ok(c[1][1][2]) ELSE Err
read_i64_from(c) == IF IsSingle(c) /\ IsI64(c[1][1]) THEN Ok(c[1][1][2]) ELSE Err
parse_max_value(c) == IF c = One(Word("max")) THEN Ok(NoLimit) ELSE read_i64_from(c)
to_i64(m) == IF m = NoLimit THEN -1 ELSE m

-----------------------------------------------------------------------------
(* Files of "KEY VALUE" lines; lines of another form are skipped. *)

\* The lines of the text at these places.
Keep(c, places) == FlattenSeq([i \in DOMAIN c |-> IF i \in places THEN <<c[i]>> ELSE << >>])

Entries(c) == Keep(c, {i \in DOMAIN c : Len(c[i]) = 2 /\ IsI64(c[i][2])})

flat_keyed_to_vec(c) ==
  LET e == Entries(c) IN Ok([i \in DOMAIN e |-> <<e[i][1][2], e[i][2][2]>>])

(* HashMap::insert: of two lines with the same key the later one stays. *)
Lookup(e, key) ==
  LET hits == {i \in DOMAIN e : e[i][1] = Word(key)}
  IN  IF hits = {} THEN 0 ELSE e[Max(hits)][2][2]

flat_keyed_to_hashmap(c, key) == Ok(Lookup(Entries(c), key))

parse_memory_stat(c, Names) ==
  LET e == Entries(c)
      counts == Keep(e, {i \in DOMAIN e : IsU64(e[i][2])})
  IN  Ok([k \in Names |-> Lookup(counts, k)])

(* The first line of the item whose value is a number. *)
parse_value_from_tuples(c, item) ==
  LET hits == {i \in DOMAIN c : Len(c[i]) >= 2 /\ c[i][1] = Word(item) /\ IsU64(c[i][2])}
      first == CHOOSE i \in hits : \A j \in hits : i <= j
  IN  IF hits = {} THEN Err ELSE Ok(c[first][2][2])

\* Mutant of parse_oom_control: a key is taken for its value.
OffByOneOom(c) ==
  LET t == FlattenSeq(c)
  IN  IF \E i \in {1, 3, 5} : i <= Len(t) /\ ~ IsU64(t[i]) THEN Panic
      ELSE Ok([oom_kill_disable |-> FALSE, under_oom |-> FALSE, oom_kill |-> 0])

(* The values are looked for by their place, after the three keys. *)
parse_oom_control(c) ==
  LET t == FlattenSeq(c)
      At(i) == IF i > Len(t) THEN 0 ELSE t[i][2]
  IN  IF \E i \in {2, 4, 6} : i <= Len(t) /\ ~ IsU64(t[i]) THEN Panic
      ELSE Ok([oom_kill_disable |-> At(2) = 1, under_oom |-> At(4) = 1, oom_kill |-> At(6)])

(* Lines "total=3 N0=1 N1=2": four, and four more where there is a hierarchy.  The
   tokens are counted less eight, which a build that checks overflow does not take
   below zero. *)
parse_numa_stat(c) ==
  IF Len(FlattenSeq(c)) < 8 \/ Len(c) < 4 THEN Panic
  ELSE Ok([i \in 1 .. 8 |->
         IF i > Len(c) THEN [pages |-> 0, per_node |-> << >>]
         ELSE [pages |-> c[i][1][3], per_node |-> [j \in 1 .. Len(c[i]) - 1 |-> c[i][j + 1][3]]]])

(* Only a line that is one number counts as the usage of a CPU. *)
parse_percpu(c) ==
  LET l == Keep(c, {i \in DOMAIN c : Len(c[i]) = 1 /\ IsU64(c[i][1])})
  IN  [i \in DOMAIN l |-> l[i][1][2]]

-----------------------------------------------------------------------------
(* The files of blkio. *)

IoOps == {"Read", "Write", "Sync", "Async", "Discard", "Total"}
NoService == [dev |-> <<0, 0>>, n |-> [o \in IoOps |-> 0]]

\* Mutant of ServiceLine: only a line of another major number closes a record.
MajorOnly(s, l) ==
  LET closed == IF l[1][2][1] # s.cur.dev[1] /\ s.cur.dev[1] # 0
                THEN [done |-> Append(s.done, s.cur), cur |-> NoService] ELSE s
      n == closed.cur.n
  IN  [closed EXCEPT !.cur = [dev |-> l[1][2],
                              n |-> [o \in IoOps |-> IF Word(o) = l[2] THEN l[3][2] ELSE n[o]]]]

(* One line of a device: a line of another device than the one before closes
   the record of that one, unless its major number is 0. *)
ServiceLine(s, l) ==
  LET closed == IF l[1][2] # s.cur.dev /\ s.cur.dev[1] # 0
                THEN [done |-> Append(s.done, s.cur), cur |-> NoService] ELSE s
      n == closed.cur.n
  IN  [closed EXCEPT !.cur = [dev |-> l[1][2],
                              n |-> [o \in IoOps |-> IF Word(o) = l[2] THEN l[3][2] ELSE n[o]]]]

parse_io_service(c) ==
  LET lines == Keep(c, {i \in DOMAIN c : Len(c[i]) = 3})
      s == FoldLeft(ServiceLine, [done |-> << >>, cur |-> NoService], lines)
  IN  IF \E i \in DOMAIN lines :
           lines[i][1][1] # "dev" \/ ~ FitsI16(lines[i][1][2]) \/ ~ IsU64(lines[i][3]) THEN Err
      ELSE Ok(IF s.cur.dev[1] # 0 THEN Append(s.done, s.cur) ELSE s.done)

parse_io_service_total(c) ==
  LET l == Keep(c, {i \in DOMAIN c : Len(c[i]) = 2 /\ c[i][1] = Word("Total") /\ IsU64(c[i][2])})
  IN  IF l = << >> THEN Err ELSE Ok(l[1][2][2])

IoKeys == <<"rbytes", "wbytes", "rios", "wios", "dbytes", "dios">>

(* The value of a token is what stands after its colon. *)
get_value(t) == IF t[1] = "dev" THEN t[2][2] ELSE 0

parse_io_stat(c) ==
  LET lines == Keep(c, {i \in DOMAIN c : Len(c[i]) = 7})
  IN  IF \E i \in DOMAIN lines : ~ FitsI16(lines[i][1][2]) THEN Panic
      ELSE Ok([i \in DOMAIN lines |->
             [dev |-> lines[i][1][2], n |-> [k \in 1 .. 6 |-> get_value(lines[i][k + 1])]]])

(* All numbers of the file in groups of three: major, minor and data. *)
parse_blkio_data(c) ==
  LET Numbers(t) == IF t[1] = "dev" THEN <<Num(t[2][1]), Num(t[2][2])>> ELSE <<t>>
      all == FlattenSeq(c)
      t == FlattenSeq([i \in DOMAIN all |-> Numbers(all[i])])
      groups == 1 .. (Len(t) \div 3)
      At(g, i) == t[3 * (g - 1) + i]
  IN  IF \E g \in groups : (\E i \in 1 .. 3 : ~ IsU64(At(g, i)))
                             \/ ~ FitsI16(<<At(g, 1)[2], At(g, 2)[2]>>) THEN Panic
      ELSE IF Len(t) % 3 # 0 THEN Err
      ELSE Ok([g \in groups |-> [dev |-> <<At(g, 1)[2], At(g, 2)[2]>>, data |-> At(g, 3)[2]]])

-----------------------------------------------------------------------------
(* What the manager reports of them. *)

Stat(d, o, n) == [dev |-> d, op |-> o, value |-> n]

from_io_services(s) ==
  LET ops == <<"Read", "Write", "Sync", "Async", "Total">>
  IN  FlattenSeq([i \in DOMAIN s |-> [j \in 1 .. 5 |-> Stat(s[i].dev, ops[j], s[i].n[ops[j]])]])

from_io_stats(s) ==
  FlattenSeq([i \in DOMAIN s |-> [j \in 1 .. 6 |-> Stat(s[i].dev, IoKeys[j], s[i].n[j])]])

from_blk_io_data(s) == [i \in DOMAIN s |-> Stat(s[i].dev, "", s[i].data)]

-----------------------------------------------------------------------------
(* The names of the sizes of huge pages: a directory hugepages-2048kB of the
   kernel is the size 2MB in the names of the files. *)

Units == <<"k", "m", "g", "t", "p">>
Power[k \in 0 .. 9] == IF k = 0 THEN 1 ELSE Kilo * Power[k - 1]
Abbrs == <<"B", "KB", "MB", "GB", "TB", "PB", "EB", "ZB", "YB">>

parse_size(n, unit) ==
  IF \E i \in DOMAIN Units : Units[i] = unit
  THEN Ok(n * Power[CHOOSE i \in DOMAIN Units : Units[i] = unit]) ELSE Err

\* Mutant of custom_size: the bound of a unit still counts in the unit below.
BoundBelow(size) ==
  LET i == CHOOSE k \in 0 .. 8 : /\ size <= Power[k + 1] \/ k = 8
                                 /\ k = 0 \/ size > Power[k]
  IN  <<size \div Power[i], Abbrs[i + 1]>>

custom_size(size) ==
  LET i == CHOOSE k \in 0 .. 8 : /\ size < Power[k + 1] \/ k = 8
                                 /\ k = 0 \/ size >= Power[k]
  IN  <<size \div Power[i], Abbrs[i + 1]>>

get_hugepage_sizes(dirs) ==
  LET Size(d) == parse_size(d[1], d[2])
  IN  FlattenSeq([i \in DOMAIN dirs |->
        IF Size(dirs[i]) = Err THEN << >> ELSE <<custom_size(Size(dirs[i])[2])>>])
=============================================================================
