---------------------------- MODULE HSConfigFile ----------------------------
(***************************************************************************)
(* HSConfigFile with its HSConfigReader, DataRow and HSValue               *)
(* (HSConfigReader.h): a table read from a text file, its rows found by    *)
(* the key field and its cells by the names in the header.                 *)
(*                                                                         *)
(* A file is a record of its lines and of whether the last one ends in a   *)
(* newline.  A line is the sequence of the texts the delimiters part it    *)
(* into: the last one is what follows the last delimiter.  An index of the *)
(* source is one less than the place in a sequence here.                   *)
(***************************************************************************)
EXTENDS Integers, Sequences, FiniteSetsExt

CONSTANTS
  Files,       \* the contents the file may have
  Layouts,     \* what the Set... calls set: [keyField, headerRows, keyRow]
  Texts,       \* texts of a cell, "" the empty one
  Fields,      \* names that are asked for
  Keys,        \* the values of KeyType
  KeyOf,       \* HSKeyTraits<KeyType>::To, a function on Texts
  Kinds,       \* ways to convert a value: "int" for ToIntegelValue, "double", "long" and
               \* "longlong" for the others
  MaxLoads     \* bound: loads on top of each other

ASSUME ConfigAssumption ==
  /\ KeyOf \in [Texts -> Keys] /\ "" \in Texts
  /\ \A f \in Files : f.lines \in Seq(Seq(Texts) \ {<<>>}) /\ f.ended \in BOOLEAN
  /\ \A l \in Layouts : l.headerRows \in Nat /\ l.keyRow \in Nat
  /\ "NULL" \notin Kinds \cup Texts /\ "freed" \notin Texts /\ MaxLoads \in Nat

VARIABLES
  layout,      \* m_strKeyField, m_nHeaderRows and m_nKeyRowIndex
  header,      \* m_datarowHeader
  rows,        \* m_vecDataRows
  fieldPlace,  \* m_mapHeader2Index
  rowPlace,    \* m_mapDataKey2Index
  cache,       \* m_mapDataKey2Data: the row, whether it still exists, and for each place of
               \* m_vecHSValue the kind of its first conversion
  loaded,      \* what was loaded since the last Clear(): files with their layouts
  held,        \* the HSValue* got last: key, place, whether it still exists
  answer,      \* a conversion made since the last Clear(): of which value, how, and what
               \* it gave; the empty sequence for none
  undefined    \* memory that is not there has been read

configVars == <<layout, header, rows, fieldPlace, rowPlace, cache, loaded, held, answer,
                undefined>>

NULL == "NULL"
Nothing == [key |-> CHOOSE k \in Keys : TRUE, place |-> 0, live |-> FALSE]
EmptyMap == [k \in {} |-> 0]

ConfigInit ==
  /\ layout \in Layouts
  /\ header = <<>> /\ rows = <<>>
  /\ fieldPlace = EmptyMap /\ rowPlace = EmptyMap /\ cache = EmptyMap
  /\ loaded = <<>> /\ held = Nothing /\ answer = <<>>
  /\ undefined = FALSE

-----------------------------------------------------------------------------
(* HSConfigReader *)

\* CreateDataRow: what follows the last delimiter is lost, and a line ends before an
\* empty cell that is not its first.
CreateDataRow(line) ==
  LET n == Len(line) - 1
      gaps == {p \in 2..n : line[p] = ""}
  IN  SubSeq(line, 1, IF gaps = {} THEN n ELSE Min(gaps) - 1)

\* LoadConfig stops at the end of the file, and a line that meets it is not used.
LinesRead(file) == SubSeq(file.lines, 1, Len(file.lines) - (IF file.ended THEN 0 ELSE 1))

HeaderRead(file, l) ==
  IF l.keyRow < l.headerRows /\ l.keyRow < Len(LinesRead(file))
  THEN CreateDataRow(LinesRead(file)[l.keyRow + 1]) ELSE <<>>

RowsRead(file, l) ==
  LET lines == LinesRead(file)
  IN  [r \in 1..Max({Len(lines) - l.headerRows, 0}) |-> CreateDataRow(lines[l.headerRows + r])]

\* GetFieldByIndex on a row with cells; on one without it reads what is not there.
GetFieldByIndex(row, place) == IF place \in DOMAIN row THEN row[place] ELSE NULL

-----------------------------------------------------------------------------
(* HSConfigFile *)

PlacesOf(name, names) == {p \in DOMAIN names : names[p] = name}

\* insert() into a map: what is there already stays.
Inserted(map, more) ==
  [k \in DOMAIN map \cup DOMAIN more |-> IF k \in DOMAIN map THEN map[k] ELSE more[k]]

\* What Load does with a file it can open, on top of what is there
Loading(file, names, cells, fields, places) ==
  LET h == names \o HeaderRead(file, layout)
      rs == cells \o RowsRead(file, layout)
      keyPlaces == PlacesOf(layout.keyField, h)
      keyPlace == IF keyPlaces = {} THEN 1 ELSE Max(keyPlaces)
      keyed == {r \in DOMAIN rs : GetFieldByIndex(rs[r], keyPlace) # NULL}
      RowsOf(k) == {r \in keyed : KeyOf[rs[r][keyPlace]] = k}
  IN  /\ header' = h /\ rows' = rs
      /\ fieldPlace' = Inserted(fields, [f \in {h[p] : p \in DOMAIN h} |-> Min(PlacesOf(f, h))])
      /\ rowPlace' = Inserted(places, [k \in {KeyOf[rs[r][keyPlace]] : r \in keyed}
                                         |-> Min(RowsOf(k))])
      /\ undefined' = (\E r \in DOMAIN rs : rs[r] = <<>>)

Load(file) ==
  /\ Len(loaded) < MaxLoads
  /\ Loading(file, header, rows, fieldPlace, rowPlace)
  /\ loaded' = Append(loaded, [file |-> file, layout |-> layout])
  /\ UNCHANGED <<layout, cache, held, answer>>

\* Mutant of Forgotten: the rows found so far are not forgotten.
Kept == /\ cache' = [k \in DOMAIN cache |-> [cache[k] EXCEPT !.live = FALSE]]
        /\ held' = [held EXCEPT !.live = FALSE] /\ answer' = <<>>

\* What Clear() takes away: values got before it are freed.
Forgotten == /\ cache' = EmptyMap
             /\ held' = [held EXCEPT !.live = FALSE] /\ answer' = <<>>

ClearConfig == /\ Forgotten
               /\ header' = <<>> /\ rows' = <<>>
               /\ fieldPlace' = EmptyMap /\ rowPlace' = EmptyMap
               /\ loaded' = <<>>
               /\ UNCHANGED <<layout, undefined>>

\* Reload() clears first; a file that cannot be opened leaves it at that (ClearConfig).
Reload(file) == /\ Forgotten
                /\ Loading(file, <<>>, <<>>, EmptyMap, EmptyMap)
                /\ loaded' = <<[file |-> file, layout |-> layout]>>
                /\ UNCHANGED layout

\* SetKeyField, SetHeaderRows and SetKeyRowIndex: the next load goes by them.
SetLayout(l) == /\ layout' = l
                /\ UNCHANGED <<header, rows, fieldPlace, rowPlace, cache, loaded, held, answer,
                               undefined>>

\* GetDataRow: the map with the row in it
GetDataRow(key) ==
  IF key \notin DOMAIN cache /\ key \in DOMAIN rowPlace
  THEN Inserted(cache, [k \in {key} |-> [row |-> rowPlace[key], live |-> TRUE, first |-> <<>>]])
  ELSE cache

\* What GetData gives now
GetValue(key, field) ==
  LET found == GetDataRow(key)
  IN  CASE key \notin DOMAIN found -> NULL
        [] key \in DOMAIN found /\ ~found[key].live -> "freed"
        [] OTHER -> IF field \in DOMAIN fieldPlace
                    THEN GetFieldByIndex(rows[found[key].row], fieldPlace[field]) ELSE NULL

GetData(key, field) ==
  /\ cache' = GetDataRow(key)
  /\ undefined' = (undefined \/ GetValue(key, field) = "freed")
  /\ UNCHANGED <<layout, header, rows, fieldPlace, rowPlace, loaded, held, answer>>

\* Mutant of ValuesOf: a new vector each time.
NewValues(e) == [p \in DOMAIN rows[e.row] |-> NULL]

\* m_vecHSValue, made when it is first asked for
ValuesOf(e) == IF e.first = <<>> THEN [p \in DOMAIN rows[e.row] |-> NULL] ELSE e.first

\* GetHSValue: a pointer into the vector, or NULL
GetHSValue(key, field) ==
  LET found == GetDataRow(key)
      e == found[key]
  IN  /\ cache' = IF key \in DOMAIN found /\ e.live
                  THEN [found EXCEPT ![key].first = ValuesOf(e)] ELSE found
      /\ held' = IF GetValue(key, field) \in {NULL, "freed"} THEN Nothing
                 ELSE [key |-> key, place |-> fieldPlace[field], live |-> TRUE]
      /\ undefined' = (undefined \/ GetValue(key, field) = "freed")
      /\ UNCHANGED <<layout, header, rows, fieldPlace, rowPlace, loaded, answer>>

\* The kind of the first conversion of a value, once it has been asked for in one way.
\* ToLonglongValue converts nothing.
FirstKind(key, place, kind) ==
  LET first == IF key \in DOMAIN cache /\ place \in DOMAIN cache[key].first
               THEN cache[key].first[place] ELSE NULL
  IN  IF first = NULL /\ kind # "longlong" THEN kind ELSE first

\* No other conversion is ever made: asked for in another way the value is 0.
AnswerOf(key, place, kind) == IF FirstKind(key, place, kind) = kind THEN "number" ELSE "zero"

\* AsBool ... AsUlonglong of the value held
AsKind(kind) ==
  /\ held.place # 0
  /\ IF held.live
     THEN /\ cache' = [cache EXCEPT ![held.key].first[held.place] =
                                      FirstKind(held.key, held.place, kind)]
          /\ answer' \in {answer, <<held.key, held.place, kind,
                                    AnswerOf(held.key, held.place, kind)>>}
          /\ UNCHANGED undefined
     ELSE undefined' = TRUE /\ UNCHANGED <<cache, answer>>
  /\ UNCHANGED <<layout, header, rows, fieldPlace, rowPlace, loaded, held>>

HostLoads == \E f \in Files : Load(f) \/ Reload(f)

HostReads == \/ \E k \in Keys, f \in Fields : GetData(k, f) \/ GetHSValue(k, f)
             \/ \E kind \in Kinds : AsKind(kind)

ConfigNext == ~undefined /\ (HostLoads \/ HostReads \/ ClearConfig \/ \E l \in Layouts : SetLayout(l))

ConfigSpec == ConfigInit /\ [][ConfigNext]_configVars

-----------------------------------------------------------------------------
(* Properties *)

\* The places of a line's cells: a cell is what a delimiter ends.
Columns(line) == 1..Len(line) - 1

Header(l) == l.file.lines[l.layout.keyRow + 1]

\* The cells of a file in the rows with a key and under a field, by the file's own lines
CellsOf(l, key, field) ==
  LET lines == l.file.lines
      names == Header(l)
      HasKey(line) == \E p \in Columns(names) \cap Columns(line) :
                        names[p] = l.layout.keyField /\ KeyOf[line[p]] = key
  IN  {c \in (l.layout.headerRows + 1..Len(lines)) \X Columns(names) :
         names[c[2]] = field /\ c[2] \in Columns(lines[c[1]]) /\ HasKey(lines[c[1]])}

\* A line as it is meant to be: it ends in a delimiter, and no cell is empty.
IsProper(line) == {p \in DOMAIN line : line[p] = ""} = {Len(line)}

\* What a file must have to be looked up in: a header with the key field in it
HasHeader(l) ==
  /\ l.layout.keyRow < l.layout.headerRows
  /\ l.layout.keyRow < Len(LinesRead(l.file))
  /\ IsProper(Header(l))
  /\ \E p \in Columns(Header(l)) : Header(l)[p] = l.layout.keyField

\* No row has cells beyond the header's.
IsNarrow(l) == \A n \in l.layout.headerRows + 1..Len(l.file.lines) :
                 Len(l.file.lines[n]) <= Len(Header(l))

IsProperFile(l) ==
  /\ l.file.ended
  /\ \A n \in DOMAIN l.file.lines : /\ IsProper(l.file.lines[n])
                                    /\ Len(l.file.lines[n]) = Len(Header(l))
  /\ \A p, q \in Columns(Header(l)) : Header(l)[p] = Header(l)[q] => p = q

\* What was loaded is one file, once or, if no row reaches the places of a second header,
\* several times (HSConfigReader.h:393-416).
OneFile(ls) == /\ ls # <<>> /\ HasHeader(ls[1])
               /\ \A n \in DOMAIN ls : ls[n] = ls[1]
               /\ Len(ls) > 1 => IsNarrow(ls[1])

\* Whatever was loaded, cleared and looked up before, a look-up answers from the file
\* loaded since the last Clear(): with the first cell that has this key and this field
\* if the file is proper, and else with one of them or not at all.  The same file loaded
\* again on top changes nothing, unless a row is wider than the header: then the key is
\* looked for among its last cells (HSConfigReader.h:393-442, 462-487).
LookupIsRight ==
  LET l == loaded[1]
      cells(k, f) == CellsOf(l, k, f)
      text(c) == l.file.lines[c[1]][c[2]]
  IN  ~undefined =>
        /\ loaded = <<>> => \A k \in Keys, f \in Fields : GetValue(k, f) = NULL
        /\ OneFile(loaded) =>
             \A k \in Keys, f \in Fields :
               /\ GetValue(k, f) \in {text(c) : c \in cells(k, f)} \cup {NULL}
               /\ IsProperFile(l) /\ cells(k, f) # {} =>
                    GetValue(k, f) = text(CHOOSE c \in cells(k, f) :
                                            \A d \in cells(k, f) : c[1] <= d[1])

\* Asked for in the same way, a value gives the same answer until the next Clear(), even
\* if it was got anew and asked for in other ways in between (HSConfigReader.h:240-263,
\* 352-376).
AnswersStay == answer # <<>> => AnswerOf(answer[1], answer[2], answer[3]) = answer[4]
=============================================================================
