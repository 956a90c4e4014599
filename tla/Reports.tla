------------------------------- MODULE Reports -------------------------------
(***************************************************************************)
(* From what the kernel prints to what the TUI reads: the server turns the *)
(* captured markdown and the structured events of a command into reports,  *)
(* and the client renders the reports to text, from which the list of      *)
(* master addresses is parsed again.                                       *)
(*                                                                         *)
(* Abstractions.  A line is the form the parser tells apart and its number,*)
(* which stands for all that is written in it.  Of the bullets "- k: v",   *)
(* "master" is "- v1: <address>", with or without the active marker,       *)
(* "address" and "version" are the two of list-active-addresses.  "other"  *)
(* is every event that is neither a balance nor an address list.  Titles,  *)
(* indentation and the JSON encoding are left out.                         *)
(***************************************************************************)
EXTENDS Amounts, Sequences, SequencesExt

CONSTANTS
  MaxLines,   \* bound on the lines a command prints
  MaxBalance  \* bound on the balances

ASSUME ReportsAssumption == MaxLines \in Nat \ {0} /\ MaxBalance \in 0 .. MaxNicks

VARIABLES
  cmd,       \* the command that runs
  printed,   \* the lines it has printed
  sections,  \* the loop of parse_markdown_to_sections: the sections so far
  text,      \* text_buf
  table,     \* table_buf
  rows,      \* the loop of synthesize_address_list: the rows so far
  pending,   \* and the address that waits for its version
  reply      \* what the client receives; late and own are history

parser_vars == <<sections, text, table>>
vars == <<cmd, printed, parser_vars, rows, pending, reply>>

-----------------------------------------------------------------------------
Commands == {"list-master-addresses", "list-active-addresses", "show-balance", "show-seedphrase"}
Bullets == {"item", "pair", "master", "active", "address", "version"}
Kinds == {"blank", "heading", "row", "rule", "text"} \cup Bullets
Line == [kind : Kinds, n : 0 .. MaxLines]

(* What a command's markdown may hold; show-balance has an event instead.  *)
Printable(c) ==
  CASE c = "list-master-addresses" -> Kinds \ {"address", "version"}
    [] c = "list-active-addresses" -> Kinds \ {"master", "active"}
    [] c = "show-balance" -> {}
    [] c = "show-seedphrase" -> Kinds \ {"master", "active", "address", "version"}

Section == [type : {"heading", "text", "key_value", "table"}, lines : Seq(Line)]
SectionOf(type, lines) == [type |-> type, lines |-> lines]

(* A row of an address list; no address is line 0.                         *)
Row == [address : 1 .. MaxLines, version : 0 .. MaxLines]
NoAddress == 0

AddressList(list) == [kind |-> "address_list", rows |-> list, nicks |-> 0]
Balance(n) == [kind |-> "balance", rows |-> <<>>, nicks |-> n]
Other == [kind |-> "other", rows |-> <<>>, nicks |-> 0]
Event == [kind : {"address_list", "balance", "other"}, rows : Seq(Row), nicks : 0 .. MaxBalance]

Reply == [state : {"none", "ok", "error"}, events : Seq(Event), text : Seq(Line),
          late : Seq(Event), own : Seq(Event)]
NoReply == [state |-> "none", events |-> <<>>, text |-> <<>>, late |-> <<>>, own |-> <<>>]

(* Types, and no section is empty.                                         *)
TypeOK ==
  /\ cmd \in Commands
  /\ printed \in Seq(Line)
  /\ sections \in Seq(Section) /\ \A i \in DOMAIN sections : sections[i].lines # <<>>
  /\ text \in Seq(Line) /\ table \in Seq(Line)
  /\ rows \in Seq(Row)
  /\ pending \in 0 .. MaxLines
  /\ reply \in Reply

Init ==
  /\ cmd \in Commands
  /\ printed = <<>>
  /\ sections = <<>> /\ text = <<>> /\ table = <<>>
  /\ rows = <<>> /\ pending = NoAddress
  /\ reply = NoReply

-----------------------------------------------------------------------------
(* parse_markdown_to_sections, one line at a time.                         *)

(* Mutant: flush_text does not look whether the buffer is empty.           *)
TextFlushedAlways(s) == Append(s, SectionOf("text", text))

TextFlushed(s) == IF text = <<>> THEN s ELSE Append(s, SectionOf("text", text))
TableFlushed(s) == IF table = <<>> THEN s ELSE Append(s, SectionOf("table", table))

(* A separator row is dropped, and a table has its header in the first row.*)
TableRow(l) ==
  /\ l.kind \in {"row", "rule"}
  /\ sections' = TextFlushed(sections)
  /\ text' = <<>>
  /\ table' = IF l.kind = "row" THEN Append(table, l) ELSE table

TextLine(l) ==
  /\ l.kind = "text"
  /\ sections' = TableFlushed(sections)
  /\ text' = Append(text, l)
  /\ table' = <<>>

(* A bullet without ": " becomes a text of its own.                        *)
OwnSection(l) ==
  CASE l.kind = "blank" -> <<>>
    [] l.kind = "heading" -> <<SectionOf("heading", <<l>>)>>
    [] l.kind = "item" -> <<SectionOf("text", <<l>>)>>
    [] OTHER -> <<SectionOf("key_value", <<l>>)>>

OwnLine(l) ==
  /\ l.kind \in {"blank", "heading"} \cup Bullets
  /\ sections' = TextFlushed(TableFlushed(sections)) \o OwnSection(l)
  /\ text' = <<>>
  /\ table' = <<>>

TableForgotten == TextFlushed(sections)                          \* mutant

(* The sections at the end of the input.                                   *)
Parsed == TableFlushed(TextFlushed(sections))

-----------------------------------------------------------------------------
(* synthesize_address_list.                                                *)

PendingDropped == rows                                          \* mutant

(* An address still without a version when the next one comes has 0.       *)
RowsPlusPending ==
  IF pending = NoAddress THEN rows
  ELSE Append(rows, [address |-> pending, version |-> 0])

RowsAtAddress == RowsPlusPending

Collect(l) ==
  CASE l.kind = "address" -> rows' = RowsAtAddress /\ pending' = l.n
    [] l.kind = "version" /\ pending # NoAddress ->
         /\ rows' = Append(rows, [address |-> pending, version |-> l.n])
         /\ pending' = NoAddress
    [] OTHER -> UNCHANGED <<rows, pending>>

-----------------------------------------------------------------------------
(* The server's answer, and what the client renders.                       *)

HasList(events) == \E i \in DOMAIN events : events[i].kind = "address_list"
HasBalance(events) == \E i \in DOMAIN events : events[i].kind = "balance"

(* augment_events_from_markdown.                                           *)
Augmented(events) ==
  IF /\ cmd \in {"list-active-addresses", "list-master-addresses"}
     /\ ~HasList(events)
     /\ RowsPlusPending # <<>>
  THEN Append(events, AddressList(RowsPlusPending))
  ELSE events

Pair == [kind |-> "pair", n |-> 0]

(* report_from_event; an address list is written without active markers.   *)
ReportOf(event) ==
  CASE event.kind = "address_list" ->
         <<SectionOf("key_value", <<Pair>>)>> \o
         [i \in DOMAIN event.rows |->
            SectionOf("key_value", <<[kind |-> "master", n |-> event.rows[i].address]>>)]
    [] event.kind = "balance" -> [i \in 1 .. 5 |-> SectionOf("key_value", <<Pair>>)]
    [] event.kind = "other" ->
         <<SectionOf("key_value", <<Pair>>),
           SectionOf("table", <<[kind |-> "row", n |-> 0], [kind |-> "row", n |-> 0]>>)>>

(* normalize: with any event at all the markdown is not looked at.         *)
Normalized(events) ==
  IF events # <<>> THEN FlattenSeq([i \in DOMAIN events |-> ReportOf(events[i])]) ELSE Parsed

(* Mutant: "{key}: {value}" without the bullet.                            *)
PairUnbulleted(l) == [l EXCEPT !.kind = "text"]

RenderedPair(l) == l

(* Section::to_text: a table has its separator again, texts have no bullet.*)
Rendered(s) ==
  CASE s.type = "heading" -> s.lines
    [] s.type = "text" -> [i \in DOMAIN s.lines |-> [s.lines[i] EXCEPT !.kind = "text"]]
    [] s.type = "key_value" -> <<RenderedPair(s.lines[1])>>
    [] s.type = "table" -> <<Head(s.lines), [kind |-> "rule", n |-> 0]>> \o Tail(s.lines)

TextOf(list) == FlattenSeq([i \in DOMAIN list |-> Rendered(list[i])])

(* The lines of some kinds, in their order.                                *)
Only(lines, kinds) ==
  FlattenSeq([i \in DOMAIN lines |-> IF lines[i].kind \in kinds THEN <<lines[i]>> ELSE <<>>])

(* parse_master_addresses.                                                 *)
MasterRows(lines) == Only(lines, {"master", "active"})

(* first_active_address and total_assets_nicks: the first event decides.   *)
FirstList(events) ==
  LET lists == {i \in DOMAIN events : events[i].kind = "address_list"}
  IN  IF lists = {} THEN <<>> ELSE events[Min(lists)].rows
TotalAssets(events) ==
  LET all == {i \in DOMAIN events : events[i].kind = "balance"}
  IN  IF all = {} THEN 0 ELSE events[Min(all)].nicks

-----------------------------------------------------------------------------
(* The steps.                                                              *)

KernelPrints(kind) ==
  LET l == [kind |-> kind, n |-> Len(printed) + 1] IN
  /\ reply = NoReply
  /\ Len(printed) < MaxLines
  /\ kind \in Printable(cmd)
  /\ printed' = Append(printed, l)
  /\ TableRow(l) \/ TextLine(l) \/ OwnLine(l)
  /\ Collect(l)
  /\ UNCHANGED <<cmd, reply>>

(* What the sink may hold: the command's own event, and possibly one that  *)
(* a driver of an earlier command wrote late.                              *)
OwnEvents == IF cmd = "show-balance" THEN {<<Balance(n)>> : n \in 0 .. MaxBalance} ELSE {<<>>}
LateEvents == {<<>>, <<Other>>, <<Balance(MaxBalance)>>,
               <<AddressList(<<[address |-> 1, version |-> 1]>>)>>}

Return ==
  /\ reply = NoReply
  /\ \E late \in LateEvents, own \in OwnEvents :
       LET events == Augmented(late \o own) IN
       reply' = [state |-> "ok", events |-> events, text |-> TextOf(Normalized(events)),
                 late |-> late, own |-> own]
  /\ UNCHANGED <<cmd, printed, parser_vars, rows, pending>>

Fail ==
  /\ reply = NoReply
  /\ reply' = [NoReply EXCEPT !.state = "error"]
  /\ UNCHANGED <<cmd, printed, parser_vars, rows, pending>>

Next == (\E kind \in Kinds : KernelPrints(kind)) \/ Return \/ Fail

Spec == Init /\ [][Next]_vars

-----------------------------------------------------------------------------
(* Properties.                                                             *)

LinesOf(list) == FlattenSeq([i \in DOMAIN list |-> list[i].lines])

(* The two buffers of the parser never hold something at the same time.    *)
InLoop ==
  /\ text = <<>> \/ table = <<>>
  /\ LinesOf(sections) \o text \o table = Only(printed, Kinds \ {"blank", "rule"})

(* Wherever the output ends, every line the kernel printed is in the       *)
(* parsed sections once, in its order: none is lost, doubled or moved by a *)
(* flush that is missing or misplaced, in the loop or after it.            *)
LinesKept == InLoop /\ LinesOf(Parsed) = Only(printed, Kinds \ {"blank", "rule"})

PrintedAt(kind) == {i \in DOMAIN printed : printed[i].kind = kind}

(* The versions that follow the address of line a, before the next address.*)
OwnVersions(a) ==
  {v \in PrintedAt("version") : a < v /\ \A b \in PrintedAt("address") : ~(a < b /\ b < v)}
VersionOf(a) == IF OwnVersions(a) = {} THEN 0 ELSE Min(OwnVersions(a))

PrintedRows ==
  LET addresses == Only(printed, {"address"})
  IN  [i \in DOMAIN addresses |->
         [address |-> addresses[i].n, version |-> VersionOf(addresses[i].n)]]

(* The active addresses the home view takes from the answer are those the  *)
(* kernel printed, in order, each with the version that follows it before  *)
(* the next address, if one does; unless the sink held another list.       *)
AddressesPaired ==
  cmd = "list-active-addresses" /\ reply.state = "ok" /\ ~HasList(reply.late) =>
    FirstList(reply.events) = PrintedRows

(* The wallet picker gets the master addresses the kernel printed, in      *)
(* order and with their active markers, although they pass through the     *)
(* parser, the renderer and a second parser; unless an event of another    *)
(* command was in the sink, when it gets what that event lists, or nothing.*)
MasterListArrives ==
  cmd = "list-master-addresses" /\ reply.state = "ok" =>
    MasterRows(reply.text) =
      IF reply.late = <<>> THEN MasterRows(printed)
      ELSE IF HasList(reply.late) THEN <<[kind |-> "master", n |-> 1]>> ELSE <<>>

(* The balance a reply to show-balance tells: the command's own, unless    *)
(* the sink held one before it.                                            *)
Told(late, own) == IF HasBalance(late) THEN Head(late).nicks ELSE Head(own).nicks

(* "Max" in the send form fills in all of the balance a reply tells, to    *)
(* the nick: what the formatted balance is read as is that balance, or a   *)
(* refusal when there is none.  That is the balance the command reported,  *)
(* unless the sink held one of an earlier command: total_assets_nicks then *)
(* takes that one, the first, although its comment (view/mod.rs:73) says   *)
(* the latest.                                                             *)
MaxSendsAll ==
  cmd = "show-balance" /\ reply.state = "ok" =>
    LET n == Told(reply.late, reply.own)
    IN  ParseNock(FormatNock(TotalAssets(reply.events))) = IF n = 0 THEN Refused ELSE n
=============================================================================
