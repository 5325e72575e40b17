--------------------------- MODULE OrderDocuments ---------------------------
(***************************************************************************)
(* What is read from the orders while other requests write them: one order *)
(* or a page of them (List, Get) and the invoice of an order               *)
(* (services/invoices/service.go over InvoiceView and AssignInvoiceNumber).*)
(*                                                                         *)
(* A header and its lines are read by separate queries with no transaction *)
(* around them: first the headers in scope, then the lines of each, by     *)
(* order id alone.  An invoice is numbered after its order's id when it is *)
(* first asked for, by a third statement.                                  *)
(***************************************************************************)
EXTENDS OrdersSQLite, Sequences

CONSTANTS
  Readers,     \* the reading requests that may be in flight at the same time
  PageLimit    \* orders on a page

ASSUME DocumentsAssumption == PageLimit \in Nat \ {0}

VARIABLES
  doc,         \* what each reading request is doing, and what it has read
  numbers,     \* the column invoice_number where it is not '', by serial
  rendered,    \* history: the invoices handed out
  touched      \* history: the ids written since a reader read its headers

documents == <<doc, numbers, rendered, touched>>

NoDoc == [kind |-> "none", pc |-> "idle", actor |-> Guest, heads |-> <<>>,
          lines |-> <<>>, number |-> 0]

DocumentsInit ==
  /\ Init
  /\ doc = [d \in Readers |-> NoDoc]
  /\ numbers = <<>>
  /\ rendered = {}
  /\ touched = [d \in Readers |-> {}]

NumberOf(serial) == IF serial \in DOMAIN numbers THEN numbers[serial] ELSE 0

HeadOf(id) == [id |-> id, serial |-> orders[id].serial, basket |-> orders[id].basket]

-----------------------------------------------------------------------------
(* The first query. *)
Ask(d, kind, actor, heads, number) ==
  /\ doc[d] = NoDoc
  /\ heads # <<>>
  /\ doc' = [doc EXCEPT ![d] = [kind |-> kind, pc |-> "items", actor |-> actor,
               heads |-> heads, lines |-> <<>>, number |-> number]]
  /\ touched' = [touched EXCEPT ![d] = {}]
  /\ UNCHANGED <<vars, numbers, rendered>>

(* List: the headers in scope, newest first, LIMIT and OFFSET.             *)
Newest(actor) ==
  LET ids == {id \in DOMAIN orders : InScope(orders[id], actor)} IN
  [n \in 1 .. Cardinality(ids) |->
     HeadOf(CHOOSE id \in ids : Cardinality({i \in ids : i > id}) = n - 1)]

ListOrders(d) ==
  \E actor \in Accounts, offset \in 0 .. 1 :
    LET all == Newest(actor) IN
    Ask(d, "list", actor,
        SubSeq(all, offset + 1,
               IF offset + PageLimit < Len(all) THEN offset + PageLimit ELSE Len(all)), 0)

GetOrder(d) ==
  \E actor \in Accounts, id \in DOMAIN orders :
    Matches(orders, id, actor) /\ Ask(d, "get", actor, <<HeadOf(id)>>, 0)

(* GeneratePDF starts with InvoiceView, which reads the number too.        *)
AskInvoice(d) ==
  \E actor \in Accounts, id \in DOMAIN orders :
    /\ Matches(orders, id, actor)
    /\ Ask(d, "invoice", actor, <<HeadOf(id)>>, NumberOf(orders[id].serial))

-----------------------------------------------------------------------------
AfterItems(q) == IF q.kind = "invoice" /\ q.number = 0 THEN "assign" ELSE "answer"

(* Mutant: every order of a page is given the lines of the first.          *)
ReadFirstItems(d) ==
  LET q == doc[d]
      id == q.heads[1].id
      read == [q EXCEPT !.lines = Append(@, {items[i] : i \in LinesOf(items, id)})]
  IN
  /\ q.pc = "items"
  /\ doc' = [doc EXCEPT ![d] =
       IF Len(read.lines) = Len(q.heads) THEN [read EXCEPT !.pc = AfterItems(q)] ELSE read]
  /\ UNCHANGED <<vars, numbers, rendered, touched>>

(* itemsFor, once for each header (withItems): the lines there are now.    *)
ReadItems(d) ==
  LET q == doc[d]
      id == q.heads[Len(q.lines) + 1].id
      read == [q EXCEPT !.lines = Append(@, {items[i] : i \in LinesOf(items, id)})]
  IN
  /\ q.pc = "items"
  /\ doc' = [doc EXCEPT ![d] =
       IF Len(read.lines) = Len(q.heads) THEN [read EXCEPT !.pc = AfterItems(q)] ELSE read]
  /\ UNCHANGED <<vars, numbers, rendered, touched>>

(* Mutant: the number is printed on the invoice and never stored.          *)
AssignSomething(d) ==
  LET q == doc[d] IN
  /\ q.pc = "assign"
  /\ doc' = [doc EXCEPT ![d] = [q EXCEPT !.pc = "answer", !.number = q.heads[1].id]]
  /\ UNCHANGED <<vars, numbers, rendered, touched>>

(* AssignInvoiceNumber: UPDATE in scope; the number is made of the id      *)
(* (formatInvoiceNumber).  No row of it is ErrNotFound.                    *)
AssignNumber(d) ==
  LET q == doc[d]
      id == q.heads[1].id
  IN
  /\ q.pc = "assign"
  /\ IF Matches(orders, id, q.actor)
     THEN /\ numbers' = [s \in DOMAIN numbers \cup {orders[id].serial} |->
                           IF s = orders[id].serial THEN id ELSE numbers[s]]
          /\ doc' = [doc EXCEPT ![d] = [q EXCEPT !.pc = "answer", !.number = id]]
     ELSE /\ doc' = [doc EXCEPT ![d] = NoDoc]
          /\ UNCHANGED numbers
  /\ UNCHANGED <<vars, rendered, touched>>

(* The answer is written; an invoice is rendered from what was read first  *)
(* and the number.                                                         *)
Answer(d) ==
  LET q == doc[d] IN
  /\ q.pc = "answer"
  /\ rendered' = rendered \cup
       (IF q.kind = "invoice" THEN {[serial |-> q.heads[1].serial, number |-> q.number]} ELSE {})
  /\ doc' = [doc EXCEPT ![d] = NoDoc]
  /\ touched' = [touched EXCEPT ![d] = {}]
  /\ UNCHANGED <<vars, numbers>>

(* A query fails, or the process stops.                                    *)
ReadingFails(d) ==
  /\ MayFail
  /\ doc[d] # NoDoc
  /\ doc' = [doc EXCEPT ![d] = NoDoc]
  /\ touched' = [touched EXCEPT ![d] = {}]
  /\ UNCHANGED <<vars, numbers, rendered>>

DocumentStep(d) ==
  \/ ListOrders(d)
  \/ GetOrder(d)
  \/ AskInvoice(d)
  \/ ReadItems(d)
  \/ AssignNumber(d)
  \/ Answer(d)
  \/ ReadingFails(d)

(* The ids whose header or lines a step of the writers changes.            *)
Written ==
  {id \in DOMAIN orders \cup DOMAIN orders' :
     \/ id \notin DOMAIN orders \cap DOMAIN orders'
     \/ orders[id] # orders'[id]
     \/ {items[i] : i \in LinesOf(items, id)} # {items'[i] : i \in LinesOf(items', id)}}

WriterStep ==
  /\ Next
  /\ touched' = [d \in Readers |->
                   IF doc[d].pc = "items" THEN touched[d] \cup Written ELSE touched[d]]
  /\ UNCHANGED <<doc, numbers, rendered>>

DocumentsNext == WriterStep \/ \E d \in Readers : DocumentStep(d)

DocumentsSpec == DocumentsInit /\ [][DocumentsNext]_<<vars, documents>>

-----------------------------------------------------------------------------
(* The lines read for a header, when they are all of its basket or none.   *)
Whole(head, lines) ==
  \/ lines = {}
  \/ lines = {ItemOf(head.id, head.serial, head.basket, n) : n \in 1 .. LineCount[head.basket]}

(* An answer shows each order whole: the total of its header is that of    *)
(* the lines beside it, and the lines are that order's own, unless the     *)
(* order was written, or removed and its id given out again, between the   *)
(* two queries.  Nothing that happens to other orders meanwhile, nor the   *)
(* time the lines of a long page take, mixes two orders in one answer.     *)
AnswersAreWhole ==
  \A d \in Readers : \A k \in DOMAIN doc[d].lines :
    doc[d].heads[k].id \notin touched[d] => Whole(doc[d].heads[k], doc[d].lines[k])

(* An invoice that was handed out has its number on record with the order, *)
(* for as long as that order exists, and the number is of that order's own *)
(* id: a second request for it gets the same.                              *)
InvoicesAreOnRecord ==
  \A invoice \in rendered : \A id \in DOMAIN orders :
    orders[id].serial = invoice.serial =>
      NumberOf(invoice.serial) = invoice.number /\ invoice.number = id
=============================================================================
