------------------------------- MODULE Watchlist -------------------------------
(***************************************************************************)
(* The users' watchlists: the DM commands of scout.py, which Bolt runs on  *)
(* its own threads, and the matching of a poll against the same table      *)
(* (UserWatchlist of storage.py, called by monitor.py in a worker thread)  *)
(* up to the DMs of notify_users.                                          *)
(*                                                                         *)
(* Each method of UserWatchlist is one transaction of one statement, on a  *)
(* connection of the pool all threads share (module ConnectionPool).       *)
(***************************************************************************)
EXTENDS Integers, FiniteSets

CONSTANTS
    User,
    Author,     \* entries of type "author"
    Number,     \* entries of type "paper": only digits
    Item,       \* new papers and recent hits
    AuthorsIn,  \* the author entries that occur in an item's author or front text
    NumberOf,   \* the paper number of an item, or NoNumber
    NoNumber,
    Handler,    \* Bolt's listener threads
    MaxConn     \* connections in the pool

Row == User \X (Author \cup Number)

ASSUME ItemAssumption ==
    /\ MaxConn \in Nat \ {0}
    /\ Author \cap Number = {}
    /\ AuthorsIn \in [Item -> SUBSET Author]
    /\ NumberOf \in [Item -> Number \cup {NoNumber}]

VARIABLES
    rows,       \* user_watchlist
    job,        \* the command of each Bolt thread, and its answer
    pc,         \* the poll: "idle", "probed", "matched"
    items,      \* its new papers and recent hits
    matches,    \* per_user_matches: what is in each user's DM, and why
    \* Observations
    steady,     \* rows that were there all the time since a command or poll began
    ever,       \* rows that were there at some time since then
    net,        \* "Added" less "Removed" replies for each row
    idle, conn  \* see ConnectionPool

vars == <<rows, job, pc, items, matches, steady, ever, net, idle, conn>>

Poll == "poll"
Reader == Handler \cup {Poll}

ASSUME HandlerAssumption == IsFiniteSet(Handler) /\ Poll \notin Handler

INSTANCE ConnectionPool WITH Thread <- Reader

NoJob == [cmd |-> "none"]
Nothing == [u \in User |-> {}]

-----------------------------------------------------------------------------
(* Matching: matches_for_users for one user and one item *)

\* Mutant: no `continue' after an author match.
MatchTwice(entries, u, i) ==
    {<<i, "author">> : a \in {b \in AuthorsIn[i] : <<u, b>> \in entries}}
        \cup {<<i, "paper">> : n \in {m \in {NumberOf[i]} : <<u, m>> \in entries}}

\* Mutant: users with author entries are not asked for numbers (an elif).
MatchAuthorsOrNumbers(entries, u, i) ==
    IF \E a \in Author : <<u, a>> \in entries
    THEN {<<i, "author">> : a \in {b \in AuthorsIn[i] : <<u, b>> \in entries}}
    ELSE {<<i, "paper">> : n \in {m \in {NumberOf[i]} : <<u, m>> \in entries}}

\* An author entry that occurs in the item hides the user's number entries.
MatchReason(entries, u, i) ==
    IF \E a \in AuthorsIn[i] : <<u, a>> \in entries THEN {<<i, "author">>}
    ELSE IF <<u, NumberOf[i]>> \in entries THEN {<<i, "paper">>}
    ELSE {}

MatchesFor(entries, u) == UNION {MatchReason(entries, u, i) : i \in items}

-----------------------------------------------------------------------------
(* Commands: _handle_watchlist, and _show_watchlist for "list" *)

Busy(reader) == IF reader = Poll THEN pc # "idle" ELSE job[reader] # NoJob

\* What a reader that begins now will have seen.
Begin(reader) ==
    /\ steady' = [steady EXCEPT ![reader] = rows]
    /\ ever' = [ever EXCEPT ![reader] = rows]

End(reader) ==
    /\ steady' = [steady EXCEPT ![reader] = {}]
    /\ ever' = [ever EXCEPT ![reader] = {}]

\* The table changes under everyone who is reading.
Change(new) ==
    /\ rows' = new
    /\ steady' = [r \in Reader |-> steady[r] \cap new]
    /\ ever' = [r \in Reader |-> IF Busy(r) THEN ever[r] \cup new ELSE {}]

Request(h, cmd, row) ==
    /\ job[h] = NoJob
    /\ job' = [job EXCEPT ![h] = [cmd |-> cmd, row |-> row]]
    /\ Begin(h)
    /\ UNCHANGED <<rows, pc, items, matches, net, idle, conn>>

\* The rows of the user h answers.
Own(set, h) == {row \in set : row[1] = job[h].row[1]}

Answer(h, answer) == job' = [job EXCEPT ![h] = [cmd |-> "reply", row |-> @.row, answer |-> answer]]

Borrow(h) ==
    /\ job[h].cmd \in {"add", "remove", "list"}
    /\ GetConn(h)
    /\ UNCHANGED <<rows, job, pc, items, matches, steady, ever, net>>

\* The listener raises, and Bolt logs it: the user gets no answer.
BorrowRaises(h) ==
    /\ job[h].cmd \in {"add", "remove", "list"}
    /\ GetConnRaises(h)
    /\ job' = [job EXCEPT ![h] = NoJob]
    /\ End(h)
    /\ UNCHANGED <<rows, pc, items, matches, net>>

\* The statement of a command and its commit go through.
Commits(h, cmd) ==
    /\ job[h].cmd = cmd
    /\ conn[h] = "live"
    /\ PutConn(h, FALSE)

\* The effect of a command on the table.
Changed(h) ==
    CASE job[h].cmd = "add" -> rows \cup {job[h].row}
      [] job[h].cmd = "remove" -> rows \ {job[h].row}
      [] OTHER -> rows

\* The statement or the commit raises, maybe after PostgreSQL committed.  As far
\* as anyone can tell from the table, the user was answered.
CommandRaises(h) ==
    /\ conn[h] # "none"
    /\ PutConn(h, TRUE)
    /\ \E new \in {rows} \cup IF conn[h] = "live" THEN {Changed(h)} ELSE {} :
          /\ rows' = new
          /\ net' = [net EXCEPT ![job[h].row] =
                        @ + Cardinality(new \ rows) - Cardinality(rows \ new)]
          /\ steady' = [r \in Reader |-> IF r = h THEN {} ELSE steady[r] \cap new]
          /\ ever' = [r \in Reader |-> IF Busy(r) /\ r # h THEN ever[r] \cup new ELSE {}]
    /\ job' = [job EXCEPT ![h] = NoJob]
    /\ UNCHANGED <<pc, items, matches>>

\* INSERT ... ON CONFLICT DO NOTHING; rowcount > 0
Add(h) ==
    /\ Commits(h, "add")
    /\ Change(rows \cup {job[h].row})
    /\ Answer(h, IF job[h].row \in rows THEN "already" ELSE "added")
    /\ UNCHANGED <<pc, items, matches, net>>

\* Mutant: rowcount is not looked at.
RemoveAlwaysRemoves(h) ==
    /\ Commits(h, "remove")
    /\ Change(rows \ {job[h].row})
    /\ Answer(h, "removed")
    /\ UNCHANGED <<pc, items, matches, net>>

\* DELETE; rowcount > 0
Remove(h) ==
    /\ Commits(h, "remove")
    /\ Change(rows \ {job[h].row})
    /\ Answer(h, IF job[h].row \in rows THEN "removed" ELSE "absent")
    /\ UNCHANGED <<pc, items, matches, net>>

\* Mutant: only author entries are selected.
ListAuthors(h) ==
    /\ Commits(h, "list")
    /\ job' = [job EXCEPT ![h] = [cmd |-> "reply", row |-> @.row, answer |-> "entries",
                                 entries |-> Own(rows \cap (User \X Author), h)]]
    /\ UNCHANGED <<rows, pc, items, matches, steady, ever, net>>

\* list_entries of the user
ListEntries(h) ==
    /\ Commits(h, "list")
    /\ job' = [job EXCEPT ![h] = [cmd |-> "reply", row |-> @.row, answer |-> "entries",
                                 entries |-> Own(rows, h)]]
    /\ UNCHANGED <<rows, pc, items, matches, steady, ever, net>>

Effect(answer) == CASE answer = "added" -> 1 [] answer = "removed" -> -1 [] OTHER -> 0

\* say()
Reply(h) ==
    /\ job[h].cmd = "reply"
    /\ net' = [net EXCEPT ![job[h].row] = @ + Effect(job[h].answer)]
    /\ job' = [job EXCEPT ![h] = NoJob]
    /\ End(h)
    /\ UNCHANGED <<rows, pc, items, matches, idle, conn>>

-----------------------------------------------------------------------------
(* The end of a poll: matches_for_users in a worker thread, then notify_users *)

EndProbing(found) ==
    /\ pc = "idle"
    /\ items' = found
    /\ pc' = "probed"
    /\ Begin(Poll)
    /\ UNCHANGED <<rows, job, matches, net, idle, conn>>

BorrowForPoll ==
    /\ pc = "probed"
    /\ GetConn(Poll)
    /\ UNCHANGED <<rows, job, pc, items, matches, steady, ever, net>>

\* run_forever logs the exception; nobody is told.
PollRaises ==
    /\ pc = "probed"
    /\ GetConnRaises(Poll) \/ (conn[Poll] # "none" /\ PutConn(Poll, TRUE))
    /\ pc' = "idle"
    /\ items' = {}
    /\ End(Poll)
    /\ UNCHANGED <<rows, job, matches, net>>

MatchUsers ==
    /\ pc = "probed"
    /\ conn[Poll] = "live"
    /\ PutConn(Poll, FALSE)
    /\ matches' = [u \in User |-> MatchesFor(rows, u)]
    /\ pc' = "matched"
    /\ UNCHANGED <<rows, job, items, steady, ever, net>>

\* The lines of one DM for each user with matches; Notification has the rest.
NotifyUsers ==
    /\ pc = "matched"
    /\ matches' = Nothing
    /\ items' = {}
    /\ pc' = "idle"
    /\ End(Poll)
    /\ UNCHANGED <<rows, job, net, idle, conn>>

-----------------------------------------------------------------------------

Init ==
    /\ rows = {}
    /\ job = [h \in Handler |-> NoJob]
    /\ pc = "idle"
    /\ items = {}
    /\ matches = Nothing
    /\ steady = [r \in Reader |-> {}]
    /\ ever = [r \in Reader |-> {}]
    /\ net = [row \in Row |-> 0]
    /\ PoolInit

Command(h) ==
    \/ \E cmd \in {"add", "remove", "list"}, row \in Row : Request(h, cmd, row)
    \/ Borrow(h) \/ BorrowRaises(h) \/ CommandRaises(h)
    \/ Add(h)
    \/ Remove(h)
    \/ ListEntries(h)
    \/ Reply(h)

PollStep ==
    \/ \E found \in SUBSET Item : EndProbing(found)
    \/ BorrowForPoll
    \/ PollRaises
    \/ MatchUsers
    \/ NotifyUsers

Restarted ==
    /\ ServerRestarts
    /\ UNCHANGED <<rows, job, pc, items, matches, steady, ever, net>>

Next == PollStep \/ Restarted \/ \E h \in Handler : Command(h)

Spec == Init /\ [][Next]_vars

-----------------------------------------------------------------------------
(* Properties *)

Reasons == Item \X {"author", "paper"}

TypeOK ==
    /\ rows \subseteq Row
    /\ \A h \in Handler :
          \/ job[h] = NoJob
          \/ job[h] \in [cmd : {"add", "remove", "list"}, row : Row]
          \/ job[h] \in [cmd : {"reply"}, row : Row,
                         answer : {"added", "already", "removed", "absent"}]
          \/ job[h] \in [cmd : {"reply"}, row : Row, answer : {"entries"},
                         entries : SUBSET Row]
    /\ pc \in {"idle", "probed", "matched"}
    /\ items \subseteq Item
    /\ matches \in [User -> SUBSET Reasons]
    /\ {steady, ever} \subseteq [Reader -> SUBSET Row]
    /\ net \in [Row -> Int]
    /\ idle \in {"none", "live", "dead"}
    /\ conn \in [Reader -> {"none", "live", "dead"}]

\* Whatever users edit while a poll matches, a user who watched an item's author
\* or number all that time has it in the DM.
WatchersTold ==
    pc = "matched" => \A u \in User, i \in items :
        (\E e \in AuthorsIn[i] \cup {NumberOf[i]} : <<u, e>> \in steady[Poll]) =>
            \E why \in {"author", "paper"} : <<i, why>> \in matches[u]

\* A DM names an item once, and for a reason that was on the user's own list
\* while the poll was matching, none removed before.
DMsJustified ==
    \A u \in User : \A m \in matches[u] :
        /\ \A other \in matches[u] : other[1] = m[1] => other = m
        /\ IF m[2] = "author" THEN \E a \in AuthorsIn[m[1]] : <<u, a>> \in ever[Poll]
           ELSE <<u, NumberOf[m[1]]>> \in ever[Poll]

\* The answers of concurrent commands agree with one another and with the
\* table: for each row, "Added" less "Removed", sent or about to be, is 1 if the
\* row is there and 0 if not.
AnswersAddUp ==
    \A row \in Row :
        LET due(answer) == Cardinality({h \in Handler :
                job[h].cmd = "reply" /\ job[h].row = row /\ job[h].answer = answer})
        IN  net[row] + due("added") - due("removed") = IF row \in rows THEN 1 ELSE 0

\* "watchlist list" shows what the user had throughout, and nothing the user
\* did not have at some time since asking.
ListsTruthful ==
    \A h \in Handler : job[h].cmd = "reply" /\ job[h].answer = "entries" =>
        /\ Own(steady[h], h) \subseteq job[h].entries
        /\ job[h].entries \subseteq Own(ever[h], h)

\* No path through a transaction, however it fails, keeps a connection: those that
\* are out are with threads in the middle of one, never more than the pool has.
ConnectionsComeBack ==
    /\ \A h \in Handler : conn[h] # "none" => job[h].cmd \in {"add", "remove", "list"}
    /\ conn[Poll] # "none" => pc = "probed"
    /\ Cardinality(InUse) <= MaxConn
==============================================================================
