------------------------------- MODULE FeedPaging -------------------------------
(***************************************************************************)
(* The inbox of one follower and its pages: BlogServiceImpl pushes blogs   *)
(* into the sorted set feed:{user} and reads pages of it by a cursor, the  *)
(* time of the last entry and the number of entries of that time already   *)
(* returned; info.html sends the cursor of the last answer and appends the *)
(* list.  The first page is asked for up to the time on the reader's clock *)
(* when the request is sent.  Requests overlap, since the page does not    *)
(* wait for an answer, and answers may be lost or overtake each other.     *)
(***************************************************************************)
EXTENDS Integers, FiniteSets

CONSTANTS
    Blogs,          \* blog ids, numbers; the set orders the members of one time by them
    Times,          \* the milliseconds at which blogs are pushed
    PageSize,       \* 2 in the code
    MaxFlight,      \* bound on the requests under way
    MaxFaults,      \* bound on lost answers and deleted rows
    Later,          \* the blogs that are pushed while the follower reads
    Clocks,         \* the times from which the page may ask, by the clock of its reader: any
                    \* of them at each request, since his clock may lag, lead or be put back
    None

VARIABLES
    inbox,          \* feed:{user}, the time of every blog pushed
    deleted,        \* blogs that are no longer in MySQL
    cursor,         \* params of the page, None before the first request
    flight,         \* requests under way: cursor, clear, and the answer once there is one
    shown,          \* how often each blog is in the list, counted up to two
    first,          \* the inbox, up to the time asked for, when the first page was read
    mixed,          \* history: cursor and list no longer belong together
    outdated,       \* history: requests under way that are older than the list
    disturbed,      \* a request was sent beside another one, or a refresh was lost
    late,           \* number of pushes of a time some cursor stands at
    faults

listVars   == <<shown, first, mixed, outdated>>
clientVars == <<cursor, listVars>>
vars == <<inbox, deleted, clientVars, flight, disturbed, late, faults>>

Start(now) == [max |-> now, offset |-> 0]

Init ==
    /\ inbox \in [Blogs \ Later -> Times]
    /\ deleted = {}
    /\ cursor = None /\ flight = {}
    /\ shown = [b \in Blogs |-> 0]
    /\ first = {} /\ mixed = FALSE /\ outdated = {}
    /\ disturbed = FALSE /\ late = 0 /\ faults = 0

Fault == faults < MaxFaults /\ faults' = faults + 1

--------------------------------------------------------------------------------
(* The server.                                                             *)

\* Later times first; of one time the greater member first.
Above(a, b) ==
    \/ inbox[a] > inbox[b]
    \/ inbox[a] = inbox[b] /\ a > b

Entries(c) == {b \in DOMAIN inbox : inbox[b] <= c.max}

\* The place of an entry among those up to the time of the cursor, from 1.
Place(c, b) == Cardinality({a \in Entries(c) : a = b \/ Above(a, b)})

\* reverseRangeByScoreWithScores(key, 0, max, offset, 2): what lies behind the cursor, and
\* its first two.
Behind(c) == {b \in Entries(c) : Place(c, b) > c.offset}

Page(c) == {b \in Entries(c) : Place(c, b) \in (c.offset + 1)..(c.offset + PageSize)}

Last(page) == CHOOSE b \in page : \A a \in page \ {b} : Above(a, b)

\* How many entries of the page have the time of its last one.
SameTime(page) == Cardinality({b \in page : inbox[b] = inbox[Last(page)]})

\* Slip: entries of that time on earlier pages are forgotten.
OnThisPage(c, page) == SameTime(page)

\* Slip: every entry of the page is counted whatever its time.
WholePage(c, page) == Cardinality(page)

\* The offset of the cursor behind a page.
Offset(c, page) == SameTime(page) + IF inbox[Last(page)] = c.max THEN c.offset ELSE 0

NextCursor(c, page) ==
    IF page = {} THEN None ELSE [max |-> inbox[Last(page)], offset |-> Offset(c, page)]

\* queryBlogOfFollow: the page and its cursor; blogs that MySQL no longer has are left out
\* of the list, not out of the cursor.
Serve(r) ==
    /\ r.answer = None
    /\ LET page == Page(r.at) IN
       flight' = (flight \ {r}) \cup
         {[r EXCEPT !.answer = [list  |-> page \ deleted,
                                next  |-> NextCursor(r.at, page),
                                inbox |-> Entries(r.at)]]}
    /\ UNCHANGED <<inbox, deleted, clientVars, disturbed, late, faults>>

Cursors == {cursor} \cup {r.answer.next : r \in {q \in flight : q.answer # None}}

\* saveBlog pushes into the inbox; the time was taken before the push and may be any earlier
\* one by then.
Push(b, t) ==
    /\ b \notin DOMAIN inbox
    /\ inbox' = [c \in DOMAIN inbox \cup {b} |-> IF c = b THEN t ELSE inbox[c]]
    /\ late' = late + IF \E c \in Cursors \ {None} : c.max = t /\ c.offset > 0 THEN 1 ELSE 0
    /\ UNCHANGED <<deleted, clientVars, flight, disturbed, faults>>

\* A row of tb_blog is deleted (nothing in the application does it, the code allows for it).
Delete(b) ==
    /\ b \in DOMAIN inbox \ deleted
    /\ Fault
    /\ deleted' = deleted \cup {b}
    /\ UNCHANGED <<inbox, clientVars, flight, disturbed, late>>

--------------------------------------------------------------------------------
(* The page.                                                               *)

Send(c, clear) ==
    LET free == 1..MaxFlight \ {r.id : r \in flight} IN
    /\ free # {}
    /\ flight' = flight \cup {[id |-> CHOOSE i \in free : \A k \in free : i <= k,
                               at |-> c, clear |-> clear, answer |-> None]}
    /\ disturbed' = (disturbed \/ flight # {})

\* queryBlogsOfFollow(true), at the top of the list, whatever is under way: the cursor goes
\* to the start when the request is sent, the list is replaced by the answer.
Refresh(now) ==
    /\ Send(Start(now), TRUE)
    /\ cursor' = Start(now)
    /\ mixed' = (mixed \/ (cursor # None /\ now < cursor.max))
    /\ UNCHANGED <<inbox, deleted, shown, first, outdated, late, faults>>

\* queryBlogsOfFollow(), at the bottom of the list, whatever is under way.
LoadMore ==
    /\ cursor # None
    /\ Send(cursor, FALSE)
    /\ UNCHANGED <<inbox, deleted, clientVars, late, faults>>

Once(list) == [b \in Blogs |-> IF b \in list THEN 1 ELSE 0]

Appended(list) == [b \in Blogs |-> IF shown[b] < 2 THEN shown[b] + Once(list)[b] ELSE 2]

\* The answer of r arrives; without data it changes nothing.
Receive(r) ==
    LET data == r.answer.next # None IN
    /\ r.answer # None
    /\ flight' = flight \ {r}
    /\ cursor' = IF data THEN r.answer.next ELSE cursor
    /\ shown' = IF ~data THEN shown
                ELSE IF r.clear THEN Once(r.answer.list) ELSE Appended(r.answer.list)
    /\ first' = IF data /\ r.clear THEN r.answer.inbox ELSE first
    /\ mixed' = IF data /\ r.clear THEN FALSE ELSE mixed \/ (data /\ r.id \in outdated)
    /\ outdated' = (IF data /\ r.clear THEN {q.id : q \in flight} ELSE outdated) \ {r.id}
    /\ UNCHANGED <<inbox, deleted, disturbed, late, faults>>

\* The request or its answer is lost, or takes longer than the page waits (axios timeout).
Lose(r) ==
    /\ Fault
    /\ flight' = flight \ {r}
    /\ disturbed' = (disturbed \/ r.clear)
    /\ outdated' = outdated \ {r.id}
    /\ UNCHANGED <<inbox, deleted, cursor, shown, first, mixed, late>>

Next ==
    \/ \E now \in Clocks : Refresh(now)
    \/ LoadMore
    \/ \E r \in flight : Serve(r) \/ Receive(r) \/ Lose(r)
    \/ \E b \in Blogs, t \in Times : Push(b, t)
    \/ \E b \in Blogs : Delete(b)

Spec == Init /\ [][Next]_vars

\* The reader scrolls on, and requests are answered.
Fairness ==
    /\ SF_vars(LoadMore)
    /\ WF_vars(\E r \in flight : Serve(r) \/ Receive(r))

FairSpec == Spec /\ Fairness

--------------------------------------------------------------------------------
\* Every variable has its type; a cursor never counts more entries than its time has.
TypeOK ==
    /\ DOMAIN inbox \subseteq Blogs /\ deleted \subseteq Blogs /\ first \subseteq Blogs
    /\ \A c \in Cursors \ {None} :
           c.offset <= Cardinality({b \in DOMAIN inbox : inbox[b] = c.max})
    /\ shown \in [Blogs -> 0..2] /\ mixed \in BOOLEAN
    /\ Cardinality(flight) <= MaxFlight /\ outdated \subseteq {r.id : r \in flight}
    /\ late \in 0..Cardinality(Blogs) /\ faults \in 0..MaxFaults
    /\ disturbed \in BOOLEAN

\* Nothing is skipped: a blog that was in the inbox when the first page of the list was
\* read, at a time up to the one asked for, and that lies before the cursor, is in the list,
\* whatever is pushed, deleted, lost or overtaken meanwhile.  Cursor and list have parted,
\* until the next answer from the top, when a page that was asked for before the list was
\* replaced is appended to the new one, or when the reader's clock has been put back.
NothingSkipped ==
    ~mixed /\ cursor # None => \A b \in first \ deleted : shown[b] > 0 \/ b \in Behind(cursor)

\* The same at all times, which a return to the top beside a next page refutes
\* (FeedPaging_refresh.cfg).
NeverSkipped == cursor # None => \A b \in first \ deleted : shown[b] > 0 \/ b \in Behind(cursor)

\* An answer from the top begins with the newest of the inbox, which a push on its way to
\* the server, or a clock that lags, refutes (FeedPaging_clock.cfg).
FromTheNewest ==
    [][\A r \in flight : r.clear /\ Serve(r) => Behind(r.at) = DOMAIN inbox]_vars

\* "No page twice" (queryBlogOfFollow): as long as requests do not overlap, a blog appears
\* again only if a blog of its own millisecond was pushed behind the cursor, one for one.
NoPageTwice ==
    ~disturbed => Cardinality({b \in Blogs : shown[b] > 1}) <= late

\* A reader who does not go back to the top again and again comes to the end: a cursor that
\* counts entries is one of an answer, and those of the top count none.
EndReached == cursor # None ~> cursor # None /\ (cursor.offset = 0 \/ Behind(cursor) = {})
================================================================================
