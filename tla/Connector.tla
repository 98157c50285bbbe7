------------------------------- MODULE Connector -------------------------------
(***************************************************************************)
(* The client library, class Connector (mem_socket_client), and what its   *)
(* calls do at the server: the sentence a call sends, the words            *)
(* Channel::sRead makes of it, and the order of a value's bytes on both    *)
(* sides.  A variable is an array of elements, each of them a variable of  *)
(* the server.  A call waits for each answer, so nothing of this           *)
(* connector runs beside it; that calls meet other clients' is Server's    *)
(* matter.  The database is here a map, until it promises nothing more.    *)
(*                                                                         *)
(* A character is a string of length one, but for Nul.  Elements are read  *)
(* and written as the type they were asked for with.                       *)
(***************************************************************************)
EXTENDS Integers, FiniteSets, SequencesExt

CONSTANTS
  Letters,   \* characters of names
  Names,     \* names of variables, sequences of characters
  Counts,    \* how many elements are asked for
  Width,     \* sizeof(T)
  Contents,  \* values of T, sequences of bytes, the least significant first
  Zero,      \* '0', what a new variable is filled with
  BufSize    \* the size of the buffers of both sides, 128

\* What operator >> of a string stream takes for the end of a word.
Blank  == " "
Spaces == {Blank, "\t", "\n", "\f", "\r"}

\* A name is one word, and so short that Decimal can say how long; names of more
\* than some hundred characters overrun the buffer.
ASSUME ConnectorAssumption ==
  /\ Letters \cap Spaces = {}
  /\ Names \subseteq Seq(Letters) /\ \A v \in Names : Len(v) \in 1..900
  /\ Counts \subseteq 1..999 /\ Width \in 1..999
  /\ Contents \subseteq [1..Width -> Nat] /\ Zero \in Nat
  /\ BufSize \in Nat

VARIABLES
  var_size,  \* name -> size, of the variables this connector asked for
  store,     \* the user's variables at the server, while lost is FALSE
  lost,      \* the server promises nothing about them any more
  call,      \* the call under way and the element it is at
  wrote,     \* history: <<name, id>> -> what that element was last given by that
             \* name, while lost is FALSE
  held,      \* history: elements sent a NEW for, and no DES since
  orphans    \* history: elements whose connector forgot or lost them

convars == <<var_size, store, lost, call, wrote, held, orphans>>

Idle == [op |-> "none", name |-> <<>>, next |-> 0]

-----------------------------------------------------------------------------
(* Sentences.                                                              *)

Digits == <<"0", "1", "2", "3", "4", "5", "6", "7", "8", "9">>
Figure(n) == Digits[(n % 10) + 1]

\* std::to_string and std::stoi, below 1000.
Decimal(n) ==
  IF n < 10 THEN <<Figure(n)>>
  ELSE IF n < 100 THEN <<Figure(n \div 10), Figure(n)>>
  ELSE <<Figure(n \div 100), Figure(n \div 10), Figure(n)>>
Number(s) == CHOOSE n \in 0..999 : Decimal(n) = s

\* The words a stream makes of a text: where they begin, and each of them.
Starts(text) == {i \in DOMAIN text : text[i] \notin Spaces /\ (i = 1 \/ text[i - 1] \in Spaces)}
WordEnd(text, i) ==
  CHOOSE j \in i..Len(text) :
    /\ \A k \in i..j : text[k] \notin Spaces
    /\ (j = Len(text) \/ text[j + 1] \in Spaces)
WordAt(text, i)  == SubSeq(text, i, WordEnd(text, i))
BeginsAt(text, n) == CHOOSE i \in Starts(text) : Cardinality({j \in Starts(text) : j <= i}) = n
WordsOf(text) == [n \in 1..Cardinality(Starts(text)) |-> WordAt(text, BeginsAt(text, n))]

Clause(word) == <<"$">> \o Decimal(Len(word)) \o <<Blank>> \o word \o <<"\r", "\n">>

\* toDBsentense().
Sentence(text) ==
  LET words == WordsOf(text)
  IN  <<"#">> \o Decimal(Len(words)) \o <<"\r", "\n">>
      \o FlattenSeq([i \in DOMAIN words |-> Clause(words[i])])

\* sWrite() of util.cpp: a sentence and a line feed, in a buffer of zeros that is
\* written past its end when they do not fit.
Nul == "NUL"
Sendable(text) == Len(Sentence(text)) < BufSize
Buffer(text)   == Sentence(text) \o <<"\n">> \o [i \in 1..(BufSize - Len(Sentence(text)) - 1) |-> Nul]

\* The first place from i on that holds char, and that does not; the line that
\* begins at i.
Seek(buf, i, char) == CHOOSE j \in i..Len(buf) : buf[j] = char /\ \A k \in i..(j - 1) : buf[k] # char
Skip(buf, i, char) == CHOOSE j \in i..Len(buf) : buf[j] # char /\ \A k \in i..(j - 1) : buf[k] = char
LineEnd(buf, i)    ==
  CHOOSE j \in i..Len(buf) :
    /\ buf[j] = "\n" /\ buf[j - 1] = "\r"
    /\ \A k \in i..(j - 1) : ~(buf[k] = "\n" /\ buf[k - 1] = "\r")
Line(buf, i)       == SubSeq(buf, i, LineEnd(buf, i) - 2)

\* sRead() of channel.cpp: the number of words, then each of them behind a '$', a
\* length that is not used, and all the blanks that follow.
NextWord(buf, i) == Skip(buf, Seek(buf, Seek(buf, LineEnd(buf, i), "$"), Blank), Blank)
Words(buf) ==
  LET first == Seek(buf, 1, "#") + 1
      place[k \in 0..Number(Line(buf, first))] ==
        IF k = 0 THEN first ELSE NextWord(buf, place[k - 1])
  IN  [k \in 1..Number(Line(buf, first)) |-> Line(buf, place[k])]

\* What the server hears of what was said.
Heard(text) == Words(Buffer(text))

\* One element's name at the server, and what is said of it.
Element(v, i) == v \o Decimal(i)
NewOf(e) == <<"N", "E", "W", Blank>> \o e \o <<Blank>> \o Decimal(Width)
SetOf(e) == <<"S", "E", "T", Blank>> \o e
GetOf(e) == <<"G", "E", "T", Blank>> \o e
DesOf(e) == <<"D", "E", "S", Blank>> \o e

-----------------------------------------------------------------------------
(* Values.                                                                 *)

\* BitHighLow() compares 0x34 with 0x12, so the client sends a value's last
\* byte first (connector.h:106-112) and the server turns it back (275-277).
Sent(v)    == Reverse(v)

\* Mutant: the server keeps the bytes as they came.
KeptAsSent(b) == b

Kept(b)    == Reverse(b)

\* GET: the server sends the last byte first (server.cpp:216-222), the client
\* fills its value from the end (connector.h:143-149).
Fetched(b) == Reverse(Reverse(b))

-----------------------------------------------------------------------------
(* The server's database.                                                  *)

NoElements == [e \in {} |-> <<>>]

\* It is the map m of what was last given, w; it is no map any more.
Is(m, w) == ~lost /\ lost' = FALSE /\ store' = m /\ wrote' = w
Lose     == lost' = TRUE /\ store' = NoElements /\ wrote' = NoElements

\* handleNewMemplace and handleOutputValue.  A put may write a table, and the
\* compaction that follows may miss a file, never end or throw (Server's MayLose
\* and Breaks).
New(words, w) ==
  /\ \/ Is([e \in DOMAIN store \cup {words[2]} |->
              IF e = words[2] THEN [i \in 1..Number(words[3]) |-> Zero] ELSE store[e]], w)
     \/ Lose
  /\ held' = held \cup {words[2]} /\ orphans' = orphans \ {words[2]}
Set(words, bytes, w) ==
  /\ Is([store EXCEPT ![words[2]] = bytes], w) \/ Lose
  /\ UNCHANGED <<held, orphans>>

\* handleFreeMemplace: erase() gives the element's block back twice, so that two
\* others may be put in one block later (db_impl.cpp:209 and 93); of an element
\* that is not there it frees a null pointer (Server's Frees and Dies).
Des(words) ==
  /\ Lose
  /\ held' = held \ {words[2]} /\ UNCHANGED orphans

-----------------------------------------------------------------------------
(* The calls, a request at a time.                                         *)

Elements(v, from, n) == {Element(v, i) : i \in from..(n - 1)}
SizeOf(v) == IF v \in DOMAIN var_size THEN var_size[v] ELSE 0

\* A new Connector knows nothing of what the last one asked for.
StartAgain ==
  /\ call' = Idle /\ var_size' = [v \in {} |-> 0]
  /\ orphans' = orphans \cup held
  /\ UNCHANGED held

\* sWrite() writes past its buffer: whatever the client does then is its end.
Overrun == StartAgain /\ Lose

\* memAsk() forgets what it was told of the name before.
BeginAsk(v, n) ==
  /\ call = Idle
  /\ var_size' = [w \in DOMAIN var_size \cup {v} |-> IF w = v THEN n ELSE var_size[w]]
  /\ call' = [op |-> "ask", name |-> v, next |-> 0]
  /\ orphans' = orphans \cup (Elements(v, n, SizeOf(v)) \cap held)
  /\ UNCHANGED <<store, lost, wrote, held>>

Given(v, i, value) == [x \in DOMAIN wrote \cup {<<v, i>>} |-> IF x = <<v, i>> THEN value ELSE wrote[x]]

\* NEW of the element the call is at.
Ask(v, i) ==
  /\ New(Heard(NewOf(Element(v, i))), Given(v, i, [k \in 1..Width |-> Zero]))
  /\ call' = [call EXCEPT !.next = @ + 1]
  /\ UNCHANGED var_size

AskRequest ==
  /\ call.op = "ask" /\ call.next < SizeOf(call.name)
  /\ IF Sendable(NewOf(Element(call.name, call.next))) THEN Ask(call.name, call.next) ELSE Overrun

\* All elements were asked for, or an answer was not OK.
EndAsk ==
  /\ call.op = "ask" /\ (call.next >= SizeOf(call.name) \/ lost)
  /\ call' = Idle
  /\ UNCHANGED <<var_size, store, lost, wrote, held, orphans>>

\* memWrite() of an element that was asked for, whose sentence is shorter than
\* that of its NEW; of another, Server's SetNothing.
Write(v, i, value) ==
  /\ call = Idle /\ Element(v, i) \in held
  /\ Set(Heard(SetOf(Element(v, i))), Kept(Sent(value)), Given(v, i, value))
  /\ UNCHANGED <<var_size, call>>

\* memRead() of an element the server has; of another, Server's MissesVar.
Read(v, i) == Fetched(store[Heard(GetOf(Element(v, i)))[2]])

\* memFree() of as many elements as it knows of.
BeginFree(v) ==
  /\ call = Idle
  /\ call' = [op |-> "free", name |-> v, next |-> 0]
  /\ UNCHANGED <<var_size, store, lost, wrote, held, orphans>>

\* DES of the element the call is at.
Free(v, i) == Des(Heard(DesOf(Element(v, i))))

\* Mutant: the entry goes before the loop asks it for its bound.
FreeRequestEarly ==
  /\ call.op = "free"
  /\ IF call.next = 0 /\ SizeOf(call.name) > 0
     THEN Free(call.name, 0) /\ call' = [call EXCEPT !.next = 1]
     ELSE call' = Idle /\ UNCHANGED <<store, lost, wrote, held, orphans>>
  /\ var_size' = [w \in DOMAIN var_size \ {call.name} |-> var_size[w]]

FreeRequest ==
  /\ call.op = "free" /\ call.next < SizeOf(call.name)
  /\ IF Sendable(DesOf(Element(call.name, call.next)))
     THEN /\ Free(call.name, call.next)
          /\ call' = [call EXCEPT !.next = @ + 1] /\ UNCHANGED var_size
     ELSE Overrun

EndFree ==
  /\ call.op = "free" /\ call.next >= SizeOf(call.name)
  /\ call' = Idle
  /\ var_size' = [w \in DOMAIN var_size \ {call.name} |-> var_size[w]]
  /\ UNCHANGED <<store, lost, wrote, held, orphans>>

\* Exit(): the server closes the database, and the next connection opens it.
Exit == call = Idle /\ StartAgain /\ (Is(store, wrote) \/ Lose)

\* The connection ends without a QUIT, within a call too.  The server reads that
\* as a sentence (Server's Garbage), or keeps the database open beside the one of
\* the next connection.
Disconnect == StartAgain /\ Lose

-----------------------------------------------------------------------------
ConnectorInit ==
  /\ var_size = [v \in {} |-> 0] /\ store = NoElements /\ lost = FALSE /\ call = Idle
  /\ wrote = NoElements /\ held = {} /\ orphans = {}

ConnectorNext ==
  \/ \E v \in Names, n \in Counts : BeginAsk(v, n)
  \/ AskRequest
  \/ EndAsk
  \/ \E v \in DOMAIN var_size, value \in Contents : \E i \in 0..(var_size[v] - 1) : Write(v, i, value)
  \/ \E v \in Names : BeginFree(v)
  \/ FreeRequest
  \/ EndFree
  \/ Exit
  \/ Disconnect

ConnectorSpec == ConnectorInit /\ [][ConnectorNext]_convars

-----------------------------------------------------------------------------
(* Properties.                                                             *)

\* No other variable was asked for an element of the same name, as a[10] and
\* a1[0] have (connector.h:70).
Unshared(v, i) == \A x \in DOMAIN wrote : Element(x[1], x[2]) = Element(v, i) => x = <<v, i>>

\* Until the first DES, lost connection, overrun or put that loses a file, what a
\* connector asked for is at the server and reads as it was last written, over
\* QUITs and new connections too, however many digits the numbers in its
\* sentences have (connector.cpp:102, channel.cpp:181) and whatever other
\* variables were asked for, shrunk or left behind, unless one of them has an
\* element of the same name.
AskedIsThere ==
  call = Idle /\ ~lost =>
    \A v \in DOMAIN var_size : \A i \in 0..(var_size[v] - 1) :
      Unshared(v, i) => Element(v, i) \in DOMAIN store /\ Read(v, i) = wrote[<<v, i>>]

\* connector.h:35 and 38, "memWrite: which one of the array the variable is": each
\* element of each variable reads as it was last written.
EachReadsItsOwn ==
  call = Idle /\ ~lost =>
    \A v \in DOMAIN var_size : \A i \in 0..(var_size[v] - 1) : Read(v, i) = wrote[<<v, i>>]

\* What was asked for and not freed is what this connector knows of and will
\* free, or its connector asked for fewer of it later or lost its connection.
NothingLeftBehind ==
  call = Idle =>
    held \subseteq orphans \cup UNION {Elements(v, 0, var_size[v]) : v \in DOMAIN var_size}

=============================================================================
