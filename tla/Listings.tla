------------------------------- MODULE Listings -------------------------------
(***************************************************************************)
(* The way of a file name through the SFTP page: the server's directory,   *)
(* the line that sftp prints, the row parsed from it, the path joined from *)
(* the row, the argument of a batch command, and the file that sftp takes  *)
(* it for. Names and paths are sequences of characters here, as what is    *)
(* said of them is that they arrive. Rows of the local pane are read from  *)
(* the file system, with the date of their last change.                    *)
(***************************************************************************)
EXTENDS NativeBridge

VARIABLES
    entry,        \* the file or directory that a pane lists
    base,         \* the path of that pane
    row,          \* what the pane shows of the entry, or Hidden
    order         \* the command given last, as sftp understands it

listingVars == <<entry, base, row, order>>

(* Bounds: an ordinary character and those that one of the steps treats    *)
(* in its own way; names of up to two, and one that looks like a link.     *)
Char == {"a", " ", "\t", "\\", "\"", "-", "."}
Name == (SeqOf(Char, 2) \ {<<>>}) \cup {<<"a", " ", "-", ">", " ", "a">>, <<"a", " ", " ", "\"">>}
Base == {<<"/">>, <<"/", "h">>}
LocalBase == <<"/", "l">>
Letter == {"d", "-", "l", "s"}
Owner == {<<"o">>, <<"o", " ", "o">>}
Year == 1970 .. 2101

White(c) == c \in {" ", "\t"}
Control(c) == c = "\t"
TrimEnd(s) == SubSeq(s, 1, SelectLastInSeq(s, LAMBDA c : ~White(c)))
TrimStart(s) == LET i == SelectInSeq(s, LAMBDA c : ~White(c)) IN IF i = 0 THEN <<>> ELSE SubSeq(s, i, Len(s))
Trim(s) == TrimStart(TrimEnd(s))

Hidden == [side |-> "hidden"]
NoOrder == [verb |-> "none"]

-----------------------------------------------------------------------------
(* Rows of the remote pane                                                 *)

(* A line of `ls -la`: a control character is printed as its number.       *)
Printed(n) == FlattenSeq([i \in DOMAIN n |-> IF Control(n[i]) THEN <<"\\", "0", "1", "1">> ELSE <<n[i]>>])
Longname(e) ==
    <<e.kind, " ", "1", " ">> \o e.owner \o
    <<" ", "g", " ", " ", "9", " ", "M", " ", " ", "D", " ", "T", " ">> \o Printed(e.name)

(* The k-th field is told by the blanks before it, the name by the eighth: *)
(* it is what follows them.                                                *)
FieldEnds(line) == {i \in DOMAIN line : White(line[i]) /\ ~White(line[i - 1])}
FieldStart(line, k) ==
    LET ends == FieldEnds(line)
        before == {i \in ends : Cardinality({j \in ends : j <= i}) = k - 1}
    IN IF before = {} THEN 0
       ELSE SelectInSubSeq(line, CHOOSE i \in before : TRUE, Len(line), LAMBDA c : ~White(c))

LinkName(n) ==
    LET arrows == {i \in DOMAIN n : i + 3 <= Len(n) /\ SubSeq(n, i, i + 3) = <<" ", "-", ">", " ">>} IN
    IF arrows = {} THEN n ELSE SubSeq(n, 1, (CHOOSE i \in arrows : \A j \in arrows : i <= j) - 1)

EntryKind(perms) ==
    CASE perms = "d" -> "dir" [] perms = "-" -> "file" [] perms = "l" -> "symlink" [] OTHER -> "other"

(* A line whose fifth field is no number has no row, nor has ".".          *)
ParseLine(text) ==
    LET line == TrimStart(text)
        start == FieldStart(line, 9)
        kind == EntryKind(line[1])
        rest == SubSeq(line, start, Len(line))
        name == IF kind = "symlink" THEN LinkName(rest) ELSE rest
    IN IF start = 0 \/ line[FieldStart(line, 5)] # "9" \/ name = <<".">> THEN Hidden
       ELSE [side |-> "remote", name |-> name, kind |-> kind]

-----------------------------------------------------------------------------
(* Rows of the local pane                                                  *)

LeapYear(y) == (y % 4 = 0 /\ y % 100 # 0) \/ y % 400 = 0
YearDays(y) == IF LeapYear(y) THEN 366 ELSE 365
MonthDays(y) == <<31, IF LeapYear(y) THEN 29 ELSE 28, 31, 30, 31, 30, 31, 31, 30, 31, 30, 31>>

(* The date of a day since 1970-01-01, year by year and month by month.    *)
FromMonth[y \in Nat, m \in Nat, day \in Nat] ==
    IF day < MonthDays(y)[m] THEN <<y, m, day + 1>> ELSE FromMonth[y, m + 1, day - MonthDays(y)[m]]
FromYear[y \in Nat, day \in Nat] ==
    IF day < YearDays(y) THEN FromMonth[y, 1, day] ELSE FromYear[y + 1, day - YearDays(y)]
DateOf(days) == FromYear[1970, days]
TimeOf(seconds) == <<seconds \div 3600, (seconds % 3600) \div 60>>

LocalRow(e) ==
    [side |-> "local", name |-> e.name, kind |-> EntryKind(e.kind),
     modified |-> DateOf(e.day) \o TimeOf(e.second)]

-----------------------------------------------------------------------------
(* Paths                                                                   *)

Slash == <<"/">>
parentPath(p) ==
    LET stripped == SubSeq(p, 1, SelectLastInSeq(p, LAMBDA c : c # "/"))
        last == SelectLastInSeq(stripped, LAMBDA c : c = "/")
    IN IF last <= 1 THEN Slash ELSE SubSeq(stripped, 1, last - 1)

(* A name of a listing has no slash.                                       *)
joinPath(p, n) ==
    CASE n = <<".", ".">> -> parentPath(p)
      [] n \in {<<".">>, <<>>} -> p
      [] p = Slash -> Slash \o n
      [] OTHER -> p \o Slash \o n

(* One argument of a batch line, in quotes.                                *)
EscapedQuote(c) == IF c = "\"" THEN <<"\\", c>> ELSE <<c>>
Escaped(c) == IF c \in {"\\", "\""} THEN <<"\\", c>> ELSE <<c>>
Rejected(p) == \E i \in DOMAIN p : Control(p[i])
BatchArg(p) ==
    <<"\"">> \o (IF p # <<>> /\ p[1] = "-" THEN <<".", "/">> ELSE <<>>)
    \o FlattenSeq([i \in DOMAIN p |-> Escaped(p[i])]) \o <<"\"">>

(* What sftp takes such an argument for: up to the closing quote, without  *)
(* one level of backslashes.                                               *)
Argument(arg) ==
    FoldLeft(LAMBDA r, c : CASE r.closed -> r
                             [] ~r.closed /\ r.escape -> [r EXCEPT !.path = Append(@, c), !.escape = FALSE]
                             [] ~r.closed /\ ~r.escape /\ c = "\\" -> [r EXCEPT !.escape = TRUE]
                             [] ~r.closed /\ ~r.escape /\ c = "\"" -> [r EXCEPT !.closed = TRUE]
                             [] OTHER -> [r EXCEPT !.path = Append(@, c)],
             [path |-> <<>>, escape |-> FALSE, closed |-> FALSE], Tail(arg)).path
CleanRemotePath(p) == IF Trim(p) = <<>> THEN <<".">> ELSE Trim(p)

(* The answer to pwd: an echo, and the path behind a text and a colon, or  *)
(* alone.                                                                  *)
PwdOutput(d, alone) == << <<">", "p">>, IF alone THEN d ELSE <<"R", ":", " ">> \o d >>
PathIn(line) ==
    LET colon == SelectInSeq(line, LAMBDA c : c = ":")
        candidates == <<IF colon = 0 THEN <<>> ELSE Trim(SubSeq(line, colon + 1, Len(line))), Trim(line)>>
        paths == SelectSeq(candidates, LAMBDA c : c # <<>> /\ c[1] = "/")
    IN IF line[1] = ">" \/ paths = <<>> THEN <<>> ELSE paths[1]
PwdPath(lines) ==
    LET i == SelectInSeq(lines, LAMBDA l : PathIn(l) # <<>>) IN IF i = 0 THEN <<>> ELSE PathIn(lines[i])

Ordered(verb, paths) ==
    IF \E i \in DOMAIN paths : Rejected(paths[i]) THEN [verb |-> "rejected"]
    ELSE [verb |-> verb, paths |-> [i \in DOMAIN paths |-> Argument(BatchArg(paths[i]))]]

-----------------------------------------------------------------------------
NoEntry == [name |-> <<>>]
ListingsInit == entry = NoEntry /\ base = Slash /\ row = Hidden /\ order = NoOrder

(* How fast the user is makes no difference here.                          *)
Listing == entry = NoEntry /\ ~Hasty

(* The pane starts where pwd says, and lists it.                           *)
ListRemote(e, d) ==
    /\ Listing
    /\ \E alone \in BOOLEAN : base' = PwdPath(PwdOutput(d, alone))
    /\ entry' = e /\ row' = ParseLine(Longname(e))
    /\ order' = Ordered("cd", <<CleanRemotePath(base')>>)
    /\ UNCHANGED bridge

ListLocal(e) ==
    /\ Listing
    /\ entry' = e /\ base' = LocalBase /\ row' = LocalRow(e) /\ order' = NoOrder
    /\ UNCHANGED bridge

(* deleteRemoteSelection(), downloadEntry(), uploadEntry().                *)
RemoveEntry ==
    /\ row.side = "remote"
    /\ order' = Ordered(IF row.kind = "dir" THEN "rmdir" ELSE "rm", <<joinPath(base, row.name)>>)
    /\ UNCHANGED <<bridge, entry, base, row>>
DownloadEntry ==
    /\ row.side = "remote" /\ row.kind = "file"
    /\ order' = Ordered("get", <<joinPath(base, row.name), joinPath(LocalBase, row.name)>>)
    /\ UNCHANGED <<bridge, entry, base, row>>
UploadEntry ==
    /\ row.side = "local" /\ row.kind = "file"
    /\ \E d \in Base : order' = Ordered("put", <<joinPath(base, row.name), joinPath(d, row.name)>>)
    /\ UNCHANGED <<bridge, entry, base, row>>

(* A double click, and the button that leads back.                         *)
OpenRow ==
    /\ row.side = "remote" /\ row.kind = "dir"
    /\ base' = joinPath(base, row.name)
    /\ row' = Hidden /\ order' = Ordered("cd", <<CleanRemotePath(base')>>)
    /\ UNCHANGED <<bridge, entry>>
Up ==
    /\ entry # NoEntry /\ row = Hidden /\ order.verb = "cd"
    /\ base' = parentPath(base)
    /\ order' = [Ordered("cd", <<CleanRemotePath(base')>>) EXCEPT !.verb = "up"]
    /\ UNCHANGED <<bridge, entry, row>>

(* Another directory, another entry.                                       *)
LeaveRow ==
    /\ entry # NoEntry
    /\ entry' = NoEntry /\ base' = Slash /\ row' = Hidden /\ order' = NoOrder
    /\ UNCHANGED bridge

-----------------------------------------------------------------------------
(* Dates by another way than the code's, for the bound: every fourth year  *)
(* has one day more, not 2100.                                             *)
DayNumber(y, m, d) ==
    LET before == <<0, 31, 59, 90, 120, 151, 181, 212, 243, 273, 304, 334>>
        leap == IF y % 4 = 0 /\ y # 2100 /\ m > 2 THEN 1 ELSE 0
    IN 365 * (y - 1970) + ((y - 1969) \div 4) - (IF y > 2100 THEN 1 ELSE 0) + before[m] + leap + d - 1

Dated == {<<y, 1, 1>> : y \in Year} \cup {<<y, 2, 28>> : y \in Year} \cup {<<y, 3, 1>> : y \in Year}
         \cup {<<y, 2, 29>> : y \in {1972, 2000, 2096}} \cup {<<y, 12, 31>> : y \in Year}
         \cup {<<2024, m, 30>> : m \in 3 .. 11}
Remote == [name : Name \cup {<<".">>}, kind : Letter, owner : Owner]
Local == {[name |-> <<"a">>, kind |-> "-", day |-> DayNumber(t[1], t[2], t[3]), date |-> t, second |-> s] :
            t \in Dated, s \in {0, 3599, 86399}}
         \cup {[name |-> n, kind |-> k, day |-> 0, date |-> <<1970, 1, 1>>, second |-> 0] : n \in Name, k \in Letter}

ListingsNext ==
    \/ \E e \in Remote, d \in Base : ListRemote(e, d)
    \/ \E e \in Local : ListLocal(e)
    \/ RemoveEntry \/ DownloadEntry \/ UploadEntry \/ OpenRow \/ Up \/ LeaveRow

(* A name that a listing tells without loss: sftp prints it as it is, no   *)
(* blank leads it, and it is no link with an arrow in its name.            *)
Telling(e) ==
    /\ ~Rejected(e.name) /\ ~White(e.name[1])
    /\ e.kind = "l" => LinkName(e.name) = e.name
Blank == entry.name # <<>> /\ White(Last(entry.name))
Special == {<<".">>, <<".", ".">>}
Below(d) == IF d = Slash THEN Slash \o entry.name ELSE d \o Slash \o entry.name

(* The file that is removed, fetched or sent is the one whose row was      *)
(* clicked, a directory is removed as one, opening a row lists what it     *)
(* stands for and going up leads back, and a row is dated as the file is:  *)
(* for every name that a listing tells.                                    *)
RowsMeanEntries ==
    entry # NoEntry =>
      /\ row.side = "local" =>
           row.name = entry.name
           /\ row.modified = entry.date \o <<entry.second \div 3600, (entry.second \div 60) % 60>>
      /\ row.side = "remote" /\ Telling(entry) =>
           row.name = entry.name /\ row.kind = EntryKind(entry.kind) /\ base \in Base
      /\ row = Hidden /\ order.verb = "cd" /\ base \in Base =>
           entry.name \in Special \/ Len(entry.owner) > 1 \/ ~Telling(entry)
      /\ Telling(entry) /\ entry.name \notin Special =>
           CASE order.verb \in {"rm", "rmdir"} ->
                  order.paths = <<Below(base)>> /\ (order.verb = "rmdir" <=> entry.kind = "d")
             [] order.verb = "get" -> order.paths = <<Below(base), Below(LocalBase)>>
             [] order.verb = "put" -> \E d \in Base : order.paths = <<Below(base), Below(d)>>
             [] order.verb = "cd" -> order.paths = <<base>> \/ Blank
             [] order.verb = "up" -> base \in Base /\ order.paths = <<base>>
             [] OTHER -> TRUE
=============================================================================
