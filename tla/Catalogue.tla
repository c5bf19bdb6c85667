------------------------------- MODULE Catalogue -------------------------------
(***************************************************************************)
(* The catalogue of qjade (qjade/src/categorymodel.cpp): the web server is *)
(* asked for the categories, for each category's packages and for each     *)
(* package; what is in the daemon's list too makes g_qjadePkgList, of      *)
(* which the other views are made (packagebycategorymodel.cpp,             *)
(* mypkgmodel.cpp, searchmodel.cpp).                                       *)
(*                                                                         *)
(* Replies come in any order, and may be errors.  Everything runs on the   *)
(* GUI thread, but getPackageFinished() waits for the daemon's list in an  *)
(* event loop of its own, where other replies are handled: the handlers    *)
(* that wait are a stack.  Each reply is handled once, for though there is *)
(* a connection for every request, the first handler reads it empty.       *)
(***************************************************************************)
EXTENDS Naturals, Sequences, FiniteSets, SequencesExt

CONSTANTS
  Categories, \* in the order of the server's answer
  PackagesOf, \* of each category, in order
  Packages,   \* their names, which are numbers: they have an order
  Known,      \* names in the daemon's list
  Dated,      \* those of them with a date
  TitleIsName,\* packages whose title is their name
  NoCategory, \* "NULL"
  MaxFailed,  \* a bound on the replies that are errors
  MaxReply    \* a bound on a search's answer

ConstantsOK ==
  /\ Packages \subseteq Nat /\ Known \subseteq Packages /\ Dated \subseteq Known
  /\ TitleIsName \subseteq Packages
  /\ Categories \in Seq(Range(Categories)) /\ IsInjective(Categories)
  /\ PackagesOf \in [Range(Categories) -> Seq(Packages)]
  /\ NoCategory \notin Range(Categories)
  /\ MaxFailed \in Nat /\ MaxReply \in Nat

VARIABLES
  asked,           \* requests that are not answered yet
  AllPkgList,      \* the daemon's list
  g_categoryList,
  catPkgList,      \* the packages each category's reply has announced
  g_qjadePkgList,
  stack,           \* handlers that wait for the daemon's list, inner last
  g_cate_number, g_cate_act_number,
  m_dataList,      \* the numbers shown: each time they are made, they are appended
  searched,        \* a search's result
  failed,
  handled,         \* history: the first package has been handled
  mixed,           \* history: a category's reply came after that
  late,            \* history: a handler did not wait for the list to come
  found            \* history: the names that the search's result should have

lists == <<g_categoryList, catPkgList, g_qjadePkgList>>
counters == <<g_cate_number, g_cate_act_number, m_dataList, handled>>
views == <<searched, found>>
vars == <<asked, AllPkgList, lists, stack, counters, views, failed, mixed, late>>

Names(list) == {list[i].name : i \in DOMAIN list}

Category == [kind |-> "categories"]
ListOf(c) == [kind |-> "list", category |-> c]
PackageOf(c, i) == [kind |-> "package", category |-> c, at |-> i]
NameOf(r) == PackagesOf[r.category][r.at]

Init ==
  /\ asked = {Category}
  /\ AllPkgList = {}
  /\ g_categoryList = <<>> /\ catPkgList = [c \in Range(Categories) |-> <<>>]
  /\ g_qjadePkgList = <<>> /\ stack = <<>>
  /\ g_cate_number = 0 /\ g_cate_act_number = 0 /\ m_dataList = <<>>
  /\ searched = <<>> /\ failed = 0
  /\ handled = FALSE /\ mixed = FALSE /\ late = FALSE /\ found = {}

-----------------------------------------------------------------------------

\* Any request may be answered by an error, or by nothing.
Fail ==
  /\ failed < MaxFailed /\ failed' = failed + 1
  /\ \E r \in asked : asked' = asked \ {r}
  /\ UNCHANGED <<AllPkgList, lists, stack, counters, views, mixed, late>>

\* The categories: each one's packages are asked for.
finished ==
  /\ Category \in asked
  /\ asked' = (asked \ {Category}) \cup {ListOf(c) : c \in Range(Categories)}
  /\ g_categoryList' = Categories
  /\ g_cate_number' = 0 /\ g_cate_act_number' = 0
  /\ UNCHANGED <<AllPkgList, catPkgList, g_qjadePkgList, stack, m_dataList, handled,
                 views, failed, mixed, late>>

\* Mutant: lists are counted, not packages.
getPackagesFinished_Lists(c) ==
  /\ ListOf(c) \in asked
  /\ asked' = (asked \ {ListOf(c)}) \cup {PackageOf(c, i) : i \in DOMAIN PackagesOf[c]}
  /\ catPkgList' = [catPkgList EXCEPT ![c] = PackagesOf[c]]
  /\ g_cate_number' = g_cate_number + 1
  /\ mixed' = (mixed \/ handled)
  /\ UNCHANGED <<AllPkgList, g_categoryList, g_qjadePkgList, stack, g_cate_act_number,
                 m_dataList, handled, views, failed, late>>

\* A category's packages: each is asked for, and counted.
getPackagesFinished(c) ==
  /\ ListOf(c) \in asked
  /\ asked' = (asked \ {ListOf(c)}) \cup {PackageOf(c, i) : i \in DOMAIN PackagesOf[c]}
  /\ catPkgList' = [catPkgList EXCEPT ![c] = PackagesOf[c]]
  /\ g_cate_number' = g_cate_number + Len(PackagesOf[c])
  /\ mixed' = (mixed \/ handled)
  /\ UNCHANGED <<AllPkgList, g_categoryList, g_qjadePkgList, stack, g_cate_act_number,
                 m_dataList, handled, views, failed, late>>

\* The first category whose list holds the title, among the lists that came.
CategoryOf(n) ==
  LET holds == {i \in DOMAIN g_categoryList :
                  n \in TitleIsName /\ Contains(catPkgList[g_categoryList[i]], n)}
  IN IF holds = {} THEN NoCategory
     ELSE g_categoryList[CHOOSE i \in holds : \A j \in holds : i <= j]

\* The entry of the name gives way to a new one.
Listed(n) ==
  LET same == {i \in DOMAIN g_qjadePkgList : g_qjadePkgList[i].name = n}
      others == IF same = {} THEN g_qjadePkgList
                ELSE RemoveAt(g_qjadePkgList, CHOOSE i \in same : \A j \in same : i <= j)
  IN Append(others, [name |-> n, category |-> CategoryOf(n)])

\* The numbers next to all packages, each category and one's own packages.
useCacheFinished(list) ==
  [all |-> Cardinality({i \in DOMAIN list : list[i].name \in AllPkgList}),
   of  |-> [c \in Range(Categories) |-> Cardinality({i \in DOMAIN list : list[i].category = c})],
   my  |-> Cardinality(Names(list) \cap AllPkgList \cap Dated)]

\* getPackageFinished() after its wait: what the daemon has too is listed, and
\* when as many packages are handled as were announced the numbers are made.
Handle(n) ==
  /\ g_qjadePkgList' = IF n \in AllPkgList THEN Listed(n) ELSE g_qjadePkgList
  /\ g_cate_act_number' = g_cate_act_number + 1
  /\ handled' = TRUE
  /\ IF g_cate_number # 0 /\ g_cate_number = g_cate_act_number'
       THEN /\ m_dataList' = Append(m_dataList, useCacheFinished(g_qjadePkgList'))
            /\ g_cate_number' = 0
       ELSE UNCHANGED <<m_dataList, g_cate_number>>
  /\ UNCHANGED <<AllPkgList, g_categoryList, catPkgList, views, failed, mixed>>

\* A package's reply: without the daemon's list its handler waits.
getPackageFinished(r) ==
  /\ r \in asked /\ r.kind = "package" /\ asked' = asked \ {r}
  /\ IF AllPkgList = {}
       THEN /\ stack' = Append(stack, NameOf(r))
            /\ UNCHANGED <<AllPkgList, lists, counters, views, failed, mixed, late>>
       ELSE Handle(NameOf(r)) /\ UNCHANGED <<stack, late>>

\* The innermost goes on: the list has come, or 10 s are over.
ProcessEvents ==
  /\ stack # <<>>
  /\ stack' = Front(stack)
  /\ Handle(Last(stack))
  /\ late' = (late \/ AllPkgList = {})
  /\ UNCHANGED asked

\* ListAllChanged.
getAllPkgList ==
  /\ AllPkgList' = Known
  /\ UNCHANGED <<asked, lists, stack, counters, views, failed, mixed, late>>

-----------------------------------------------------------------------------

\* The rows of a category's view.
setCategory(c) ==
  {n \in Names(g_qjadePkgList) \cap AllPkgList :
     \E i \in DOMAIN g_qjadePkgList : g_qjadePkgList[i] = [name |-> n, category |-> c]}

\* A name is put before the first that is greater.
Inserted(list, n) ==
  LET greater == {k \in DOMAIN list : list[k] > n}
  IN IF greater = {} THEN Append(list, n)
     ELSE InsertAt(list, CHOOSE k \in greater : \A j \in greater : k <= j, n)

\* A search's answer, name by name: known names, each once.
search(reply) ==
  FoldLeft(LAMBDA list, n : IF n \notin AllPkgList \/ Contains(list, n) THEN list ELSE Inserted(list, n),
           <<>>, reply)

Search(reply) ==
  /\ searched' = search(reply)
  /\ found' = Range(reply) \cap AllPkgList
  /\ UNCHANGED <<asked, AllPkgList, lists, stack, counters, failed, mixed, late>>

Replies == UNION {[1 .. k -> Packages] : k \in 0 .. MaxReply}

Next ==
  \/ Fail \/ finished
  \/ \E c \in Range(Categories) : getPackagesFinished(c)
  \/ \E r \in asked : getPackageFinished(r)
  \/ ProcessEvents \/ getAllPkgList
  \/ \E reply \in Replies : Search(reply)

Spec == Init /\ [][Next]_vars

-----------------------------------------------------------------------------

Entries == [name : Packages, category : Range(Categories) \cup {NoCategory}]

\* Type: only what the daemon has too is listed, and every package that is
\* asked for belongs to a category whose list has come.
TypeOK ==
  /\ g_qjadePkgList \in Seq(Entries) /\ Names(g_qjadePkgList) \subseteq Known
  /\ AllPkgList \in {{}, Known}
  /\ \A r \in asked : r.kind = "package" => catPkgList[r.category] = PackagesOf[r.category]
  /\ stack \in Seq(Packages)
  /\ g_cate_act_number \in Nat /\ g_cate_number \in Nat
  /\ searched \in Seq(Packages)

\* A name is listed once, though a package of two categories is asked for, and
\* answered, twice (categorymodel.cpp:327-334).
ListedOnce ==
  \A i, j \in DOMAIN g_qjadePkgList : g_qjadePkgList[i].name = g_qjadePkgList[j].name => i = j

Answered == asked = {} /\ stack = <<>> /\ failed = 0

Announced == UNION {Range(PackagesOf[c]) : c \in Range(Categories)}

\* What is listed in the end does not depend on the order of the replies, nor
\* on the handlers that were nested: it is what the server and the daemon both
\* have, each under the first category that has its title
\* (categorymodel.cpp:294-338).
OrderDoesNotMatter ==
  Answered /\ ~late =>
    /\ Names(g_qjadePkgList) = Announced \cap Known
    /\ \A i \in DOMAIN g_qjadePkgList, k \in DOMAIN Categories :
         /\ g_qjadePkgList[i].name \in TitleIsName \cap Range(PackagesOf[Categories[k]])
         /\ \A j \in 1 .. k - 1 : g_qjadePkgList[i].name \notin Range(PackagesOf[Categories[j]])
         => g_qjadePkgList[i].category = Categories[k]

\* When every category is announced before the first package is handled, the
\* two counters meet once, at the last reply: the numbers are those of the
\* whole list, and each category's is the number of its rows
\* (categorymodel.cpp:339-407).
NumbersAreWhole ==
  Answered /\ ~mixed /\ Announced # {} =>
    /\ m_dataList = <<useCacheFinished(g_qjadePkgList)>>
    /\ \A c \in Range(Categories) : m_dataList[1].of[c] = Cardinality(setCategory(c))

\* A search shows each known name of the answer once, in order
\* (searchmodel.cpp:60-126).
SearchIsSorted ==
  /\ Range(searched) = found
  /\ \A i, j \in DOMAIN searched : i < j => searched[i] < searched[j]

\* Whatever the order of the replies, the catalogue comes out the same.
CatalogueInv ==
  TypeOK /\ ListedOnce /\ OrderDoesNotMatter /\ NumbersAreWhole /\ SearchIsSorted
=============================================================================
