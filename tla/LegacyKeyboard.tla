----------------------------- MODULE LegacyKeyboard -----------------------------
(***************************************************************************)
(* RealMSX.type for residents without a spool (server/msx_real.py): line   *)
(* by line into the free cells of the BIOS ring, by the agent's `t` where  *)
(* there is one, and by poking the ring of the paused machine where there  *)
(* is not.  The program that reads the ring and the keyboard that fills    *)
(* it run on between two requests, but not while the machine is paused.    *)
(***************************************************************************)
EXTENDS Naturals, Sequences, FiniteSets

CONSTANTS
  Typing,      \* what the call types: a sequence of "c" and "r" (Return)
  KeyCells,    \* KEYBUF_SIZE
  KeysByHand,  \* keys pressed on the keyboard itself
  MaxLost      \* requests that are not answered

ASSUME KeyboardAssumption ==
  KeyCells \in Nat \ {0} /\ Typing \in Seq({"c", "r"})

VARIABLES
  cells,       \* KEYBUF: the position in Typing, ByHand or Stale
  put, get,    \* PUTPNT, GETPNT
  frozen,      \* the agent holds the machine in its hook
  byT,         \* the agent advertises `t`
  typist,      \* the call
  running,     \* the program works on a line it has read
  pressed,     \* keys pressed by hand
  \* History, which guards nothing:
  got, gone    \* characters of Typing, and keys of the hand, out of the ring

keyboardVars == <<cells, put, get, frozen, byT, typist, running, pressed, got, gone>>

ByHand == 0
Stale == Len(Typing) + 1
KeyCapacity == KeyCells - 1
Less(a, b) == IF a < b THEN a ELSE b

CellAfter(p, n) == (p + n) % KeyCells
KeysPending == (put + KeyCells - get) % KeyCells
CellsWaiting == {CellAfter(get, i) : i \in 0 .. KeysPending - 1}

----------------------------------------------------------------------------
\* The machine.

Reading ==
  /\ ~frozen /\ ~running /\ KeysPending > 0
  /\ get' = CellAfter(get, 1)
  /\ got' = IF cells[get] = ByHand THEN got ELSE Append(got, cells[get])
  /\ gone' = IF cells[get] = ByHand THEN gone + 1 ELSE gone
  /\ running' = (cells[get] \in DOMAIN Typing /\ Typing[cells[get]] = "r")
  /\ UNCHANGED <<cells, put, frozen, byT, typist, pressed>>

\* A program may clear the ring (KILBUF) behind the line it took.
Running ==
  /\ ~frozen /\ running /\ running' = FALSE
  /\ \/ UNCHANGED <<get, gone>>
     \/ /\ get' = put
        /\ gone' = gone + Cardinality({c \in CellsWaiting : cells[c] = ByHand})
  /\ UNCHANGED <<cells, put, frozen, byT, typist, pressed, got>>

Pressing ==
  /\ ~frozen /\ pressed < KeysByHand /\ KeysPending < KeyCapacity
  /\ cells' = [cells EXCEPT ![put] = ByHand] /\ put' = CellAfter(put, 1)
  /\ pressed' = pressed + 1
  /\ UNCHANGED <<get, frozen, byT, typist, running, got, gone>>

\* The resident lets the machine go when its session is lost.
LetsGo ==
  /\ frozen /\ typist.pc = "failed" /\ frozen' = FALSE
  /\ UNCHANGED <<cells, put, get, byT, typist, running, pressed, got, gone>>

----------------------------------------------------------------------------
\* A request: it has its effect and is answered, or is lost before or behind
\* its effect and ends the call.

TypistAt(pc) == [typist EXCEPT !.pc = pc]
TypistFails == [typist EXCEPT !.pc = "failed"]

AsksAgent(then) ==
  \/ typist' = then
  \/ typist.lost < MaxLost /\ typist' = [TypistFails EXCEPT !.lost = @ + 1]
MachineKeys == <<cells, put, get, frozen>>
RequestIsLost ==
  /\ typist.pc \in {"type", "pointers", "first", "rest", "publish", "resume", "drain"}
  /\ typist.lost < MaxLost
  /\ typist' = [TypistFails EXCEPT !.lost = @ + 1]
  /\ UNCHANGED <<MachineKeys, byT, running, pressed, got, gone>>
Surroundings == <<byT, running, pressed, got, gone>>

----------------------------------------------------------------------------
\* type.

LineEnd ==
  LET ends == {i \in typist.line + 1 .. Len(Typing) : Typing[i] = "r"}
  IN  IF ends = {} THEN Len(Typing) ELSE CHOOSE i \in ends : \A j \in ends : i <= j

\* What the next request carries: an empty one only asks for the space.
KeyBatch == Less(typist.credits, LineEnd - typist.at)

\* The characters of the batch from one cell of the ring on.
Poked(from, first, n) ==
  [c \in 0 .. KeyCells - 1 |->
     IF c \in from .. from + n - 1 THEN first + (c - from) ELSE cells[c]]

Took(n, pending) ==
  [typist EXCEPT !.pc = IF typist.at + n = LineEnd THEN "drain" ELSE "type",
                 !.at = @ + n, !.credits = KeyCapacity - pending, !.taken = 0]

\* keybuf_write by an agent that knows `t`.
WritesAtOnce ==
  /\ typist.pc = "type" /\ byT
  /\ LET n == Less(KeyBatch, KeyCapacity - KeysPending)
     IN  /\ cells' = [c \in DOMAIN cells |->
               LET i == (c + KeyCells - put) % KeyCells
               IN  IF i < n THEN typist.at + 1 + i ELSE cells[c]]
         /\ put' = CellAfter(put, n)
         /\ AsksAgent(Took(n, KeysPending + n))
  /\ UNCHANGED <<get, frozen, Surroundings>>

\* _keybuf_write_legacy: an empty batch reads the pointers and no more.
Looks ==
  /\ typist.pc = "type" /\ ~byT /\ KeyBatch = 0
  /\ AsksAgent(Took(0, KeysPending))
  /\ UNCHANGED <<MachineKeys, Surroundings>>

\* Mutant: the machine runs on while its ring is written.
FreezesNothing ==
  /\ typist.pc = "type" /\ ~byT /\ KeyBatch > 0
  /\ frozen' = FALSE /\ AsksAgent(TypistAt("pointers"))
  /\ UNCHANGED <<cells, put, get, Surroundings>>

Freezing ==
  /\ typist.pc = "type" /\ ~byT /\ KeyBatch > 0
  /\ frozen' = TRUE /\ AsksAgent(TypistAt("pointers"))
  /\ UNCHANGED <<cells, put, get, Surroundings>>

ReadsPointers ==
  /\ typist.pc = "pointers"
  /\ LET n == Less(KeyBatch, KeyCapacity - KeysPending)
     IN  AsksAgent([typist EXCEPT !.pc = IF n = 0 THEN "resume" ELSE "first", !.taken = n,
                    !.put = put, !.pending = KeysPending + n])
  /\ UNCHANGED <<MachineKeys, Surroundings>>

\* As much as fits before the end of the ring, and the rest from its start.
FirstPart == Less(typist.taken, KeyCells - typist.put)

PokesFirst ==
  /\ typist.pc = "first"
  /\ cells' = Poked(typist.put, typist.at + 1, FirstPart)
  /\ AsksAgent(TypistAt(IF FirstPart < typist.taken THEN "rest" ELSE "publish"))
  /\ UNCHANGED <<put, get, frozen, Surroundings>>

PokesRest ==
  /\ typist.pc = "rest"
  /\ cells' = Poked(0, typist.at + FirstPart + 1, typist.taken - FirstPart)
  /\ AsksAgent(TypistAt("publish"))
  /\ UNCHANGED <<put, get, frozen, Surroundings>>

\* PUTPNT last.
PublishesKeys ==
  /\ typist.pc = "publish"
  /\ put' = CellAfter(typist.put, typist.taken) /\ AsksAgent(TypistAt("resume"))
  /\ UNCHANGED <<cells, get, frozen, Surroundings>>

Resuming ==
  /\ typist.pc = "resume"
  /\ frozen' = FALSE /\ AsksAgent(Took(typist.taken, typist.pending))
  /\ UNCHANGED <<cells, put, get, Surroundings>>

\* wait_keybuf_empty, and the pause behind every Return, which a program that
\* clears the ring does not outlast.
Drains ==
  /\ typist.pc = "drain" /\ KeysPending = 0
  /\ AsksAgent(TypistAt("settle"))
  /\ UNCHANGED <<MachineKeys, Surroundings>>

NextLine ==
  /\ typist.pc = "settle" /\ ~running
  /\ typist' = IF typist.at = Len(Typing) THEN TypistAt("ok")
               ELSE [typist EXCEPT !.pc = "type", !.line = typist.at, !.credits = KeyCapacity]
  /\ UNCHANGED <<MachineKeys, Surroundings>>

\* Nothing is read any more, and the deadline passes between two requests.
NotRead ==
  /\ typist.pc \in {"type", "drain"} /\ KeysPending > 0
  /\ typist' = TypistFails
  /\ UNCHANGED <<MachineKeys, Surroundings>>

----------------------------------------------------------------------------
KeyboardInit ==
  /\ cells = [c \in 0 .. KeyCells - 1 |-> Stale]
  /\ put \in 0 .. KeyCells - 1 /\ get = put
  /\ frozen = FALSE /\ byT \in BOOLEAN
  /\ typist = [pc |-> "type", line |-> 0, at |-> 0, credits |-> KeyCapacity, taken |-> 0,
               put |-> 0, pending |-> 0, lost |-> 0]
  /\ running = FALSE /\ pressed = 0 /\ got = <<>> /\ gone = 0

KeyboardNext ==
  \/ Reading \/ Running \/ Pressing \/ LetsGo
  \/ WritesAtOnce \/ Looks \/ Freezing \/ ReadsPointers \/ PokesFirst \/ PokesRest
  \/ PublishesKeys \/ Resuming \/ Drains \/ NextLine \/ NotRead \/ RequestIsLost

KeyboardSpec == KeyboardInit /\ [][KeyboardNext]_keyboardVars

\* The program reads the text in order, each character once, and all of it
\* when the call succeeds; a batch of which a request is lost stands in the
\* ring whole or not at all; and no key of the machine's own keyboard is lost
\* to the host's writes. (_keybuf_write_legacy: "CHGET never observes half a
\* batch")
TypingIsWhole ==
  /\ \A i \in DOMAIN got : got[i] = i
  /\ typist.pc = "ok" => Len(got) = Len(Typing)
  /\ LET typed == {c \in CellsWaiting : cells[c] # ByHand}
     IN  /\ \A c \in typed : cells[c] # Stale
         /\ ~byT => Len(got) + Cardinality(typed) \in {typist.at, typist.at + typist.taken}
         /\ pressed = gone + Cardinality(CellsWaiting \ typed)
===============================================================================
