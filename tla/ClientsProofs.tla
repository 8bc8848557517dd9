---------------------------- MODULE ClientsProofs ----------------------------
(***************************************************************************)
(* Proofs about the clients of one connection, as MCClients puts them side *)
(* by side, for any number of bytes, lines and signals: the telnet clients *)
(* of chapter05 tell commands from text and give the terminal back, and    *)
(* the clients that send lines lose none of them.                          *)
(***************************************************************************)
EXTENDS MCClients, SequenceTheorems, TLAPS

---------------------------------------------------------------------------
(* The connection of the telnet clients                                    *)

\* How far into a command recv_data() is, by what it waits for.
Phase == CASE rp = "verb" -> 1 [] rp = "option" -> 2 [] OTHER -> 0

\* After p bytes of a command comes byte b, and then it is q bytes.
Follows(p, b, q) ==
    \/ p = 0 /\ b = "text" /\ q = 0
    \/ p = 0 /\ b = "IAC" /\ q = 1
    \/ p = 1 /\ b = "verb" /\ q = 2
    \/ p = 2 /\ b = "option" /\ q = 0

\* The bytes in the socket lead from where recv_data() is to where the server is (f says
\* where each of them leads), or there are none and none will come.
InStep ==
    \/ net = <<>> /\ fin
    \/ \E f \in [0 .. Len(net) -> 0 .. 2] :
           /\ f[0] = Phase /\ f[Len(net)] = place
           /\ \A i \in 1 .. Len(net) : Follows(f[i - 1], net[i], f[i])

\* Types, of the terminal apart; what was taken for a command was sent; and commands are
\* told from text.
Channel ==
    /\ prog \in Programs /\ key \in BOOLEAN
    /\ net \in Seq(Kinds) /\ sentBytes \in 0 .. MaxBytes /\ place \in 0 .. 2
    /\ fin \in BOOLEAN /\ broken \in BOOLEAN
    /\ rp \in {"first", "verb", "option", "reply"}
    /\ shown \subseteq Kinds
    /\ commands \in Nat /\ answers \in Nat
    /\ commands + Len(net) <= sentBytes
    /\ broken => fin
    /\ CommandsApart

\* What a client and its server do to the connection.
KeySent ==
    /\ key' \in BOOLEAN
    /\ SendOk \/ UNCHANGED broken
    /\ UNCHANGED <<prog, net, sentBytes, place, fin, dataVars>>
Moves ==
    \/ World \/ InCommand
    \/ DataDone /\ (prog # 3 => InStep)
    \/ (DataEnds \/ DataBreaks) /\ UNCHANGED worldVars
    \/ KeySent

LEMMA SocketFacts ==
  ASSUME Channel
  PROVE  /\ Len(net) \in Nat
         /\ ~Empty => Len(net) > 0 /\ Tail(net) \in Seq(Kinds) /\ Len(Tail(net)) = Len(net) - 1
                      /\ Head(net) = net[1] /\ Head(net) \in Kinds
                      /\ \A i \in 1 .. Len(net) - 1 : Tail(net)[i] = net[i + 1]
<1>1. net \in Seq(Kinds)
  BY DEF Channel
<1>2. Len(net) \in Nat
  BY <1>1, LenProperties
<1>3. ASSUME ~Empty
      PROVE  /\ Len(net) > 0 /\ Tail(net) \in Seq(Kinds) /\ Len(Tail(net)) = Len(net) - 1
             /\ \A i \in 1 .. Len(net) - 1 : Tail(net)[i] = net[i + 1]
  <2>1. net # <<>>
    BY <1>3 DEF Empty
  <2>2. Len(net) # 0
    BY <1>1, <2>1, EmptySeq
  <2> QED  BY <1>1, <1>2, <2>1, <2>2, HeadTailProperties
<1>4. ASSUME ~Empty PROVE Head(net) = net[1] /\ Head(net) \in Kinds
  <2>1. Head(net) = net[1]
    BY <1>1, <1>4 DEF Empty
  <2>2. 1 \in 1 .. Len(net)
    BY <1>2, <1>3, <1>4
  <2> QED  BY <1>1, <2>1, <2>2, ElementOfSeq
<1> QED  BY <1>2, <1>3, <1>4

\* The byte recv_data() takes is the one it waits for.
LEMMA FirstByte ==
  ASSUME Channel, InStep, ~Empty
  PROVE  \E q \in 0 .. 2 : Follows(Phase, Head(net), q)
<1>1. PICK f \in [0 .. Len(net) -> 0 .. 2] :
           /\ f[0] = Phase
           /\ \A i \in 1 .. Len(net) : Follows(f[i - 1], net[i], f[i])
  BY DEF InStep, Empty
<1>2. 1 \in 1 .. Len(net) /\ 1 \in 0 .. Len(net) /\ 1 - 1 = 0
  BY SocketFacts
<1>3. Follows(f[0], net[1], f[1]) /\ f[1] \in 0 .. 2
  BY <1>1, <1>2
<1> QED  BY <1>1, <1>3, SocketFacts

\* Taking the byte leaves the rest in step.
LEMMA TakeInStep ==
  ASSUME Channel, InStep, ~Empty, Take, Follows(Phase, Head(net), Phase')
  PROVE  InStep'
<1>1. PICK f \in [0 .. Len(net) -> 0 .. 2] :
           /\ f[0] = Phase /\ f[Len(net)] = place
           /\ \A i \in 1 .. Len(net) : Follows(f[i - 1], net[i], f[i])
  BY DEF InStep, Empty
<1>2. net' = Tail(net) /\ place' = place
  BY DEF Take
<1>3. Len(net) \in Nat /\ Len(net) > 0 /\ Len(net') = Len(net) - 1
  BY <1>2, SocketFacts
<1>4. \A i \in 1 .. Len(net) - 1 : net'[i] = net[i + 1]
  BY <1>2, SocketFacts
<1> DEFINE n == Len(net)
           g == [i \in 0 .. n - 1 |-> f[i + 1]]
<1>5. g \in [0 .. Len(net') -> 0 .. 2]
  BY <1>1, <1>3
<1>6. g[0] = Phase'
  <2>1. Follows(f[0], net[1], f[1])
    <3>1. 1 \in 1 .. Len(net) /\ 1 - 1 = 0
      BY <1>3
    <3> QED  BY <1>1, <3>1
  <2>2. Follows(Phase, net[1], f[1])
    BY <1>1, <2>1
  <2>3. f[1] = Phase'
    BY <2>2, SocketFacts DEF Follows
  <2> QED  BY <1>3, <2>3
<1>7. g[Len(net')] = place'
  BY <1>1, <1>2, <1>3
<1>8. ASSUME NEW i \in 1 .. Len(net') PROVE Follows(g[i - 1], net'[i], g[i])
  <2>1. i + 1 \in 1 .. Len(net) /\ i \in 0 .. n - 1 /\ i - 1 \in 0 .. n - 1 /\ (i + 1) - 1 = i
        /\ (i - 1) + 1 = i /\ i \in 1 .. Len(net) - 1
    BY <1>3
  <2>2. Follows(f[i], net[i + 1], f[i + 1])
    BY <1>1, <2>1
  <2>3. g[i - 1] = f[i] /\ g[i] = f[i + 1] /\ net'[i] = net[i + 1]
    BY <1>4, <2>1
  <2> QED  BY <2>2, <2>3
<1> HIDE DEF g
<1> QED  BY <1>5, <1>6, <1>7, <1>8 DEF InStep

\* So does a byte that the server sends.
LEMMA SendInStep ==
  ASSUME Channel, InStep, ServerSends
  PROVE  InStep'
<1>0. Len(net) \in Nat /\ ~fin /\ net \in Seq(Kinds) /\ place \in 0 .. 2 /\ rp' = rp
  BY SocketFacts DEF ServerSends, Channel, dataVars
<1>1. PICK f \in [0 .. Len(net) -> 0 .. 2] :
           /\ f[0] = Phase /\ f[Len(net)] = place
           /\ \A i \in 1 .. Len(net) : Follows(f[i - 1], net[i], f[i])
  BY <1>0 DEF InStep
<1>2. PICK b \in Kinds : /\ b = CASE place = 1 -> "verb" [] place = 2 -> "option" [] OTHER -> b
                         /\ place = 0 => b \in {"text", "IAC"}
                         /\ net' = Append(net, b)
                         /\ place' = IF b = "text" THEN 0 ELSE (place + 1) % 3
  BY DEF ServerSends
<1>3. Follows(place, b, place') /\ place' \in 0 .. 2
  <2>1. CASE place = 0
    <3>1. (0 + 1) % 3 = 1
      OBVIOUS
    <3> QED  BY <1>2, <2>1, <3>1 DEF Follows
  <2>2. CASE place = 1
    <3>1. (1 + 1) % 3 = 2
      OBVIOUS
    <3> QED  BY <1>2, <2>2, <3>1 DEF Follows
  <2>3. CASE place = 2
    <3>1. (2 + 1) % 3 = 0
      OBVIOUS
    <3> QED  BY <1>2, <2>3, <3>1 DEF Follows
  <2> QED  BY <1>0, <2>1, <2>2, <2>3
<1>4. /\ Len(net') = Len(net) + 1
      /\ \A i \in 1 .. Len(net) : net'[i] = net[i]
      /\ net'[Len(net) + 1] = b
  BY <1>0, <1>2, AppendProperties
<1> DEFINE n == Len(net)
           q == place'
           g == [i \in 0 .. n + 1 |-> IF i = n + 1 THEN q ELSE f[i]]
<1>5. g \in [0 .. Len(net') -> 0 .. 2]
  BY <1>0, <1>1, <1>3, <1>4
<1>6. g[0] = Phase' /\ g[Len(net')] = place'
  BY <1>0, <1>1, <1>4 DEF Phase
<1>7. ASSUME NEW i \in 1 .. Len(net') PROVE Follows(g[i - 1], net'[i], g[i])
  <2>1. CASE i = n + 1
    <3>1. g[i] = q /\ g[i - 1] = f[n] /\ net'[i] = b
      BY <1>0, <1>4, <2>1
    <3> QED  BY <1>1, <1>3, <3>1
  <2>2. CASE i # n + 1
    <3>1. i \in 1 .. n
      BY <1>0, <1>4, <2>2
    <3>2. g[i] = f[i] /\ g[i - 1] = f[i - 1] /\ net'[i] = net[i]
      BY <1>0, <1>4, <3>1
    <3> QED  BY <1>1, <3>1, <3>2
  <2> QED  BY <2>1, <2>2
<1> HIDE DEF g
<1> QED  BY <1>5, <1>6, <1>7 DEF InStep

\* Only what gives a command up in the middle loses the step.
LEMMA StaysInStep ==
  ASSUME Channel, InStep, World \/ InCommand \/ DataDone \/ KeySent \/ UNCHANGED <<net, place, fin, rp>>
  PROVE  InStep'
<1>1. ASSUME net' = net, place' = place, fin' = fin \/ fin', Phase' = Phase PROVE InStep'
  <2>1. CASE net = <<>> /\ fin
    BY <1>1, <2>1 DEF InStep
  <2>2. CASE ~(net = <<>> /\ fin)
    <3>1. PICK f \in [0 .. Len(net) -> 0 .. 2] :
              /\ f[0] = Phase /\ f[Len(net)] = place
              /\ \A i \in 1 .. Len(net) : Follows(f[i - 1], net[i], f[i])
      BY <2>2 DEF InStep
    <3> QED  BY <1>1, <3>1 DEF InStep
  <2> QED  BY <2>1, <2>2
<1>2. CASE World
  <2>1. CASE ServerSends
    BY <2>1, SendInStep
  <2>2. CASE ServerCloses \/ Press
    BY <1>1, <2>2 DEF ServerCloses, Press, dataVars, Phase
  <2> QED  BY <1>2, <2>1, <2>2 DEF World
<1>3. CASE KeySent \/ UNCHANGED <<net, place, fin, rp>>
  BY <1>1, <1>3 DEF KeySent, dataVars, Phase
<1>4. ASSUME ShowByte \/ BeginCommand \/ TakeVerb \/ TakeOption PROVE InStep'
  <2>1. ~Empty /\ Take
    BY <1>4 DEF ShowByte, BeginCommand, TakeVerb, TakeOption
  <2>2. PICK q \in 0 .. 2 : Follows(Phase, Head(net), q)
    BY <2>1, FirstByte
  <2>3. Follows(Phase, Head(net), Phase')
    <3>1. CASE ShowByte
      BY <2>2, <3>1 DEF ShowByte, Phase, Follows
    <3>2. CASE BeginCommand
      BY <2>2, <3>2 DEF BeginCommand, Phase, Follows
    <3>3. CASE TakeVerb
      BY <2>2, <3>3 DEF TakeVerb, Phase, Follows
    <3>4. CASE TakeOption
      BY <2>2, <3>4 DEF TakeOption, Phase, Follows
    <3> QED  BY <1>4, <3>1, <3>2, <3>3, <3>4
  <2> QED  BY <2>1, <2>3, TakeInStep
<1>5. CASE MissEnd
  BY <1>5 DEF MissEnd, Empty, worldVars, InStep
<1>6. CASE SendWont
  BY <1>1, <1>6 DEF SendWont, Phase
<1> QED
  BY <1>2, <1>3, <1>4, <1>5, <1>6 DEF InCommand, DataDone

\* Every move keeps the types, and commands apart from text.
LEMMA ChannelStep ==
  ASSUME Channel, Moves
  PROVE  Channel'
<1> USE SocketFacts
<1>1. CASE World
  <2>1. CASE ServerSends
    <3>1. PICK b \in Kinds : net' = Append(net, b) /\ place' = IF b = "text" THEN 0 ELSE (place + 1) % 3
      BY <2>1 DEF ServerSends
    <3>2. net' \in Seq(Kinds) /\ Len(net') = Len(net) + 1
      BY <3>1, AppendProperties DEF Channel
    <3>3. place' \in 0 .. 2
      <4>1. (0 + 1) % 3 = 1 /\ (1 + 1) % 3 = 2 /\ (2 + 1) % 3 = 0
        OBVIOUS
      <4>2. place = 0 \/ place = 1 \/ place = 2
        BY DEF Channel
      <4> QED  BY <3>1, <4>1, <4>2
    <3>4. sentBytes' = sentBytes + 1 /\ sentBytes' \in 0 .. MaxBytes
      BY <2>1, TelnetAssumption DEF ServerSends, Channel
    <3>5. UNCHANGED <<prog, key, fin, broken, rp, shown, commands, answers>>
      BY <2>1 DEF ServerSends, dataVars
    <3>6. commands' + Len(net') <= sentBytes'
      BY <3>2, <3>4, <3>5 DEF Channel
    <3> QED
      BY <3>2, <3>3, <3>4, <3>5, <3>6 DEF Channel, CommandsApart
  <2>2. CASE ServerCloses \/ Press
    <3>1. UNCHANGED <<prog, net, sentBytes, place, broken, rp, shown, commands, answers>>
      BY <2>2 DEF ServerCloses, Press, dataVars
    <3>2. key' \in BOOLEAN /\ fin' \in BOOLEAN /\ (fin => fin')
      BY <2>2 DEF ServerCloses, Press, Channel
    <3> QED  BY <3>1, <3>2 DEF Channel, CommandsApart
  <2> QED  BY <1>1, <2>1, <2>2 DEF World
<1>2. CASE KeySent
  BY <1>2 DEF KeySent, SendOk, Channel, CommandsApart, dataVars
<1>3. ASSUME DataEnds \/ DataBreaks, UNCHANGED worldVars PROVE Channel'
  BY <1>3 DEF DataEnds, SendBreaks, DataBreaks, Blocks, Channel, CommandsApart, worldVars
<1>4. CASE BeginCommand \/ TakeVerb \/ TakeOption
  <2>1. ~Empty /\ net' = Tail(net) /\ UNCHANGED <<prog, key, sentBytes, place, fin, broken>>
    BY <1>4 DEF BeginCommand, TakeVerb, TakeOption, Take
  <2>2. net' \in Seq(Kinds) /\ Len(net') = Len(net) - 1
    BY <2>1
  <2> QED
    BY <1>4, <2>1, <2>2 DEF BeginCommand, TakeVerb, TakeOption, Channel, CommandsApart
<1>5. CASE MissEnd
  BY <1>5 DEF MissEnd, Channel, CommandsApart, worldVars
<1>6. CASE SendWont
  BY <1>6 DEF SendWont, SendOk, Channel, CommandsApart
<1>7. CASE ShowByte /\ (prog # 3 => InStep)
  <2>1. ~Empty /\ net' = Tail(net) /\ UNCHANGED <<prog, key, sentBytes, place, fin, broken, rp, commands, answers>>
        /\ shown' = shown \cup {Head(net)} /\ rp = "first" /\ Head(net) # "IAC"
    BY <1>7 DEF ShowByte, Take
  <2>2. net' \in Seq(Kinds) /\ Len(net') = Len(net) - 1 /\ Head(net) \in Kinds
    BY <2>1
  <2>3. prog # 3 => Head(net) = "text"
    <3>1. SUFFICES ASSUME prog # 3 PROVE Head(net) = "text"
      OBVIOUS
    <3>2. InStep
      BY <1>7, <3>1
    <3>3. PICK q \in 0 .. 2 : Follows(Phase, Head(net), q)
      BY <2>1, <3>2, FirstByte
    <3> QED  BY <2>1, <3>3 DEF Follows, Phase
  <2> QED
    BY <2>1, <2>2, <2>3 DEF Channel, CommandsApart
<1> QED
  BY <1>1, <1>2, <1>3, <1>4, <1>5, <1>6, <1>7 DEF Moves, InCommand, DataDone

---------------------------------------------------------------------------
(* telnet1.c, telnet2.c and telnet3.c                                      *)

\* Types, of the connection apart; the terminal is given back at the end and no earlier;
\* and a command that was given up in the middle is the last thing that was received.
SingleInv ==
    /\ tty \in {"raw", "cooked"} /\ signals \in 0 .. MaxSignals
    /\ pc \in {"wait", "recv", "key", "test", "restore", "ended", "killed"}
    /\ ready \subseteq {"net", "key"}
    /\ g_end \in BOOLEAN
    /\ errno \in {"EAGAIN", "EINTR", "other"}
    /\ tty = "cooked" <=> pc = "ended"
    /\ prog # 3 => InStep \/ (pc = "test" /\ g_end) \/ pc \in {"restore", "ended", "killed"}

LEMMA SingleStream ==
    /\ T!InCommand <=> InCommand
    /\ T!DataDone <=> DataDone
    /\ T!DataEnds <=> DataEnds
    /\ T!DataBreaks <=> DataBreaks
    /\ T!SendBreaks <=> SendBreaks
    /\ T!SendOk <=> SendOk
    /\ T!World <=> World
<1> USE DEF T!Empty, Empty, T!Take, Take, T!SendOk, SendOk, T!SendBreaks, SendBreaks, T!Blocks, Blocks,
            T!worldVars, worldVars, T!dataVars, dataVars, T!Kinds, Kinds
<1>1. T!InCommand <=> InCommand
  BY DEF T!InCommand, T!BeginCommand, T!TakeVerb, T!TakeOption, T!MissEnd,
         InCommand, BeginCommand, TakeVerb, TakeOption, MissEnd
<1>2. T!DataDone <=> DataDone
  BY DEF T!DataDone, T!ShowByte, T!SendWont, DataDone, ShowByte, SendWont
<1>3. (T!DataEnds <=> DataEnds) /\ (T!DataBreaks <=> DataBreaks) /\ (T!SendBreaks <=> SendBreaks)
  BY DEF T!DataEnds, T!DataBreaks, DataEnds, DataBreaks
<1>4. T!World <=> World
  BY DEF T!World, T!ServerSends, T!ServerCloses, T!Press, World, ServerSends, ServerCloses, Press
<1> QED  BY <1>1, <1>2, <1>3, <1>4

LEMMA SingleMoves == SingleInv /\ (T!Loop \/ T!SigTerm) => Moves \/ UNCHANGED <<worldVars, dataVars>>
<1> SUFFICES ASSUME SingleInv, T!Loop \/ T!SigTerm PROVE Moves \/ UNCHANGED <<worldVars, dataVars>>
  OBVIOUS
<1> USE SingleStream DEF T!worldVars, worldVars, T!dataVars, dataVars, T!streamVars
<1>1. CASE T!Wait \/ T!WaitEnds \/ T!WaitFails \/ T!NoKey \/ T!Test
  BY <1>1 DEF T!Wait, T!WaitEnds, T!WaitFails, T!NoKey, T!Test
<1>2. CASE T!Data
  BY <1>2 DEF T!Data, Moves, SingleInv
<1>3. CASE T!DataFails \/ T!NoData \/ T!EndByErrno
  BY <1>3 DEF T!DataFails, T!NoData, T!EndByErrno, Moves, DataEnds, DataBreaks
<1>4. CASE T!Key \/ T!KeyFails
  BY <1>4 DEF T!Key, T!KeyFails, Moves, KeySent
<1>5. CASE T!Restore
  BY <1>5 DEF T!Restore
<1>6. CASE T!SigTerm
  BY <1>6 DEF T!SigTerm, Moves, DataBreaks
<1> QED
  BY <1>1, <1>2, <1>3, <1>4, <1>5, <1>6 DEF T!Loop

LEMMA SingleStep ==
  ASSUME Channel, SingleInv, T!Loop \/ T!SigTerm
  PROVE  SingleInv'
<1> USE SingleStream DEF T!worldVars, worldVars, T!dataVars, dataVars, T!streamVars
<1>1. CASE T!Wait \/ T!WaitEnds \/ T!WaitFails \/ T!NoKey \/ T!Test
  <2>1. UNCHANGED <<tty, signals, prog, net, place, fin, rp>>
    BY <1>1 DEF T!Wait, T!WaitEnds, T!WaitFails, T!NoKey, T!Test
  <2>2. InStep => InStep'
    BY <2>1, StaysInStep
  <2> QED
    BY <1>1, <2>1, <2>2 DEF SingleInv, T!Wait, T!WaitEnds, T!WaitFails, T!NoKey, T!Test
<1>2. CASE T!Data
  <2>1. UNCHANGED <<tty, signals, ready, g_end, errno>> /\ pc = "recv" /\ prog' = prog
        /\ pc' \in {"recv", "key", "test"}
    BY <1>2 DEF T!Data, T!AfterData, InCommand, DataDone, ShowByte, SendWont, BeginCommand,
                TakeVerb, TakeOption, MissEnd, Take, worldVars
  <2>2. InStep => InStep'
    BY <1>2, StaysInStep DEF T!Data
  <2> QED  BY <2>1, <2>2 DEF SingleInv
<1>3. CASE T!DataFails
  BY <1>3 DEF T!DataFails, SingleInv
<1>4. CASE T!NoData \/ T!EndByErrno
  BY <1>4 DEF T!NoData, T!EndByErrno, DataBreaks, DataEnds, worldVars, SingleInv
<1>5. CASE T!Key \/ T!KeyFails
  <2>1. UNCHANGED <<tty, signals, prog, net, place, fin, rp>>
    BY <1>5 DEF T!Key, T!KeyFails
  <2>2. InStep => InStep'
    BY <2>1, StaysInStep
  <2> QED  BY <1>5, <2>1, <2>2 DEF SingleInv, T!Key, T!KeyFails
<1>6. CASE T!Restore
  BY <1>6 DEF T!Restore, SingleInv
<1>7. CASE T!SigTerm
  <2>1. signals' \in 0 .. MaxSignals
    BY <1>7, TelnetAssumption DEF T!SigTerm, SingleInv
  <2>2. prog' = prog /\ tty' = tty /\ ready' = ready /\ g_end' = TRUE
        /\ errno' \in {"EAGAIN", "EINTR", "other"} /\ pc # "ended"
    BY <1>7 DEF T!SigTerm, SingleInv, DataBreaks, worldVars
  <2>3. CASE pc' = "test" /\ pc = "recv"
    BY <2>1, <2>2, <2>3 DEF SingleInv
  <2>4. CASE UNCHANGED <<worldVars, dataVars, pc>>
    <3>1. InStep => InStep'
      BY <2>4, StaysInStep DEF worldVars, dataVars
    <3> QED  BY <2>1, <2>2, <2>4, <3>1 DEF SingleInv
  <2> QED  BY <1>7, <2>3, <2>4 DEF T!SigTerm
<1> QED
  BY <1>1, <1>2, <1>3, <1>4, <1>5, <1>6, <1>7 DEF T!Loop

---------------------------------------------------------------------------
(* telnet4.c and telnet5.c                                                 *)

\* Who still reads the keyboard: nobody once main() has waited for it, unless a signal
\* from outside has interrupted wait(); a thread ends with main() in any case.
NobodyReads == main \in {"restore", "ended"} /\ prog = 4 /\ signals = 0 => sender \in {"none", "done"}

PairInv ==
    /\ prog \in {4, 5}
    /\ tty \in {"raw", "cooked"} /\ signals \in 0 .. MaxSignals
    /\ main \in {"start", "set", "test", "recv", "kill", "wait", "restore", "ended", "killed"}
    /\ sender \in {"none", "test", "read", "send", "kill", "done"}
    /\ g_end \in [{"main", "sender"} -> BOOLEAN]
    /\ known \in BOOLEAN /\ lone \in BOOLEAN
    /\ main = "start" => sender = "none"
    /\ tty = "cooked" => main = "ended"
    /\ main = "ended" => tty = "cooked" \/ lone
    /\ NobodyReads
    /\ InStep \/ main \in {"kill", "wait", "restore", "ended", "killed"}

LEMMA PairStream ==
    /\ P!InCommand <=> InCommand
    /\ P!DataDone <=> DataDone
    /\ P!DataEnds <=> DataEnds
    /\ P!DataBreaks <=> DataBreaks
    /\ P!SendBreaks <=> SendBreaks
    /\ P!SendOk <=> SendOk
    /\ P!World <=> World
<1> USE DEF P!Empty, Empty, P!Take, Take, P!SendOk, SendOk, P!SendBreaks, SendBreaks, P!Blocks, Blocks,
            P!worldVars, worldVars, P!dataVars, dataVars, P!Kinds, Kinds
<1>1. P!InCommand <=> InCommand
  BY DEF P!InCommand, P!BeginCommand, P!TakeVerb, P!TakeOption, P!MissEnd,
         InCommand, BeginCommand, TakeVerb, TakeOption, MissEnd
<1>2. P!DataDone <=> DataDone
  BY DEF P!DataDone, P!ShowByte, P!SendWont, DataDone, ShowByte, SendWont
<1>3. (P!DataEnds <=> DataEnds) /\ (P!DataBreaks <=> DataBreaks) /\ (P!SendBreaks <=> SendBreaks)
  BY DEF P!DataEnds, P!DataBreaks, DataEnds, DataBreaks
<1>4. P!World <=> World
  BY DEF P!World, P!ServerSends, P!ServerCloses, P!Press, World, ServerSends, ServerCloses, Press
<1> QED  BY <1>1, <1>2, <1>3, <1>4

\* SIGTERM for main() ends a command, or leaves the connection and main() alone, or, in
\* telnet4.c, interrupts wait().
LEMMA SignalMainIs ==
  ASSUME PairInv, P!SignalMain
  PROVE  /\ main \notin {"ended", "killed"}
         /\ g_end' \in [{"main", "sender"} -> BOOLEAN]
         /\ \/ DataBreaks /\ main' = "kill" /\ main = "recv"
            \/ /\ UNCHANGED <<worldVars, dataVars>>
               /\ main' = main \/ (main = "wait" /\ prog = 4 /\ main' = "restore")
<1>1. g_end' \in [{"main", "sender"} -> BOOLEAN]
  BY DEF P!SignalMain, P!Handle, P!Both, PairInv
<1> QED
  BY <1>1, PairStream
     DEF P!SignalMain, P!Over, P!worldVars, P!dataVars, worldVars, dataVars, PairInv

LEMMA SignalSenderIs ==
  ASSUME PairInv, P!SignalSender
  PROVE  /\ sender \notin {"none", "done"}
         /\ g_end' \in [{"main", "sender"} -> BOOLEAN]
         /\ sender' \in {sender, "send"}
<1>1. g_end' \in [{"main", "sender"} -> BOOLEAN]
  BY DEF P!SignalSender, P!Handle, P!Both, PairInv
<1> QED
  BY <1>1 DEF P!SignalSender

LEMMA PairMoves ==
  ASSUME key \in BOOLEAN, PairInv, P!Main \/ P!Sender \/ P!SigTerm
  PROVE  Moves \/ UNCHANGED <<worldVars, dataVars>>
<1> USE PairStream DEF P!worldVars, worldVars, P!dataVars, dataVars, P!streamVars
<1>1. CASE P!Start \/ P!StartFails \/ P!SetParent \/ P!TestMain \/ P!Kill \/ P!WaitSender \/ P!RestoreTty
  BY <1>1 DEF P!Start, P!StartFails, P!SetParent, P!TestMain, P!Kill, P!WaitSender, P!RestoreTty
<1>2. CASE P!Data
  BY <1>2 DEF P!Data, Moves, PairInv
<1>3. CASE P!DataFails
  BY <1>3 DEF P!DataFails, Moves, DataEnds
<1>4. CASE P!TestSender \/ P!SendKeyFails \/ P!EndAstray
  BY <1>4 DEF P!TestSender, P!SendKeyFails, P!EndAstray
<1>5. CASE P!Read \/ P!SendKey
  BY <1>5 DEF P!Read, P!SendKey, Moves, KeySent
<1>6. CASE P!EndSender \/ P!SigTerm
  <2>1. CASE P!SignalMain
    BY <2>1, SignalMainIs DEF Moves, DataBreaks
  <2>2. CASE ~P!SignalMain
    BY <1>6, <2>2 DEF P!EndSender, P!SigTerm
  <2> QED  BY <2>1, <2>2
<1> QED
  BY <1>1, <1>2, <1>3, <1>4, <1>5, <1>6 DEF P!Main, P!Sender

LEMMA PairStep ==
  ASSUME Channel, PairInv, P!Main \/ P!Sender \/ P!SigTerm
  PROVE  PairInv'
<1> USE PairStream DEF P!worldVars, worldVars, P!dataVars, dataVars, P!streamVars
<1>1. ASSUME UNCHANGED <<prog, net, place, fin, rp>> PROVE prog' = prog /\ (InStep => InStep')
  BY <1>1, StaysInStep
<1>2. CASE P!Start
  <2>1. g_end' \in [{"main", "sender"} -> BOOLEAN]
    BY <1>2 DEF P!Start, P!Both, PairInv
  <2> QED  BY <1>1, <1>2, <2>1 DEF P!Start, PairInv, NobodyReads
<1>3. CASE P!StartFails \/ P!SetParent \/ P!TestMain \/ P!WaitSender
  BY <1>1, <1>3 DEF P!StartFails, P!SetParent, P!TestMain, P!WaitSender, PairInv, NobodyReads
<1>4. CASE P!RestoreTty
  BY <1>1, <1>4 DEF P!RestoreTty, PairInv, NobodyReads
<1>5. CASE P!Kill
  <2>1. /\ main = "kill" /\ main' = "wait"
        /\ UNCHANGED <<prog, net, place, fin, rp, tty, signals, known, lone>>
        /\ sender' \in {sender, "send"}
        /\ g_end' \in [{"main", "sender"} -> BOOLEAN]
    BY <1>5, SignalSenderIs DEF P!Kill, PairInv
  <2> QED  BY <1>1, <2>1 DEF PairInv, NobodyReads
<1>6. CASE P!Data
  <2>1. /\ UNCHANGED <<tty, signals, sender, g_end, known, lone>> /\ main = "recv" /\ prog' = prog
        /\ main' \in {"recv", "test"}
    BY <1>6 DEF P!Data, InCommand, DataDone, ShowByte, SendWont, BeginCommand,
                TakeVerb, TakeOption, MissEnd, Take
  <2>2. InStep => InStep'
    BY <1>6, StaysInStep DEF P!Data
  <2> QED  BY <2>1, <2>2 DEF PairInv, NobodyReads
<1>7. CASE P!DataFails
  BY <1>7 DEF P!DataFails, DataEnds, PairInv, NobodyReads
<1>8. CASE ~P!Orphaned /\ (P!TestSender \/ P!Read \/ P!SendKey \/ P!SendKeyFails \/ P!EndAstray)
  <2>1. /\ UNCHANGED <<prog, net, place, fin, rp, tty, signals, known, lone, g_end>>
        /\ sender \notin {"none", "done"}
        /\ sender' \in {"test", "read", "send", "kill", "done"}
        /\ main' = main \/ (main' = "killed" /\ prog = 5)
    BY <1>8 DEF P!TestSender, P!Read, P!SendKey, P!SendKeyFails, P!EndAstray
  <2>2. prog = 5 => ~P!Over
    BY <1>8 DEF P!Orphaned
  <2> QED
    BY <1>1, <2>1, <2>2 DEF PairInv, NobodyReads, P!Over
<1>9. CASE P!EndSender
  <2>1. UNCHANGED <<tty, signals, known, lone>> /\ sender = "kill" /\ sender' = "done"
    BY <1>9 DEF P!EndSender
  <2>2. CASE UNCHANGED <<worldVars, dataVars, main, g_end>>
    BY <1>1, <2>1, <2>2 DEF PairInv, NobodyReads
  <2>3. CASE P!SignalMain
    <3>1. CASE DataBreaks /\ main' = "kill" /\ main = "recv"
      BY <2>1, <2>3, <3>1, SignalMainIs DEF DataBreaks, PairInv, NobodyReads
    <3>2. CASE UNCHANGED <<worldVars, dataVars>>
               /\ (main' = main \/ (main = "wait" /\ prog = 4 /\ main' = "restore"))
      BY <1>1, <2>1, <2>3, <3>2, SignalMainIs DEF PairInv, NobodyReads
    <3> QED  BY <2>3, <3>1, <3>2, SignalMainIs
  <2> QED  BY <1>9, <2>2, <2>3 DEF P!EndSender
<1>10. CASE P!SigTerm
  <2>1. UNCHANGED <<tty, known, lone>> /\ signals' = signals + 1 /\ signals' \in 0 .. MaxSignals
        /\ signals' # 0
    BY <1>10, TelnetAssumption DEF P!SigTerm, PairInv
  <2>2. CASE P!SignalMain /\ UNCHANGED sender
    <3>1. CASE DataBreaks /\ main' = "kill" /\ main = "recv"
      BY <2>1, <2>2, <3>1, SignalMainIs DEF DataBreaks, PairInv, NobodyReads
    <3>2. CASE UNCHANGED <<worldVars, dataVars>>
               /\ (main' = main \/ (main = "wait" /\ prog = 4 /\ main' = "restore"))
      BY <1>1, <2>1, <2>2, <3>2, SignalMainIs DEF PairInv, NobodyReads
    <3> QED  BY <2>2, <3>1, <3>2, SignalMainIs
  <2>3. CASE P!SignalSender /\ UNCHANGED <<worldVars, dataVars, main>>
    BY <1>1, <2>1, <2>3, SignalSenderIs DEF PairInv, NobodyReads
  <2> QED  BY <1>10, <2>2, <2>3 DEF P!SigTerm
<1> QED
  BY <1>2, <1>3, <1>4, <1>5, <1>6, <1>7, <1>8, <1>9, <1>10 DEF P!Main, P!Sender

---------------------------------------------------------------------------
(* The clients that send lines                                             *)

\* The types, by what the one client has.
LineArrays ==
    /\ typed \in [{Me} -> Nat] /\ partial \in [{Me} -> BOOLEAN] /\ closed \in [{Me} -> BOOLEAN]
    /\ buffered \in [{Me} -> Nat] /\ taken \in [{Me} -> Nat]
    /\ at \in [{Me} -> L!Places] /\ found \in [{Me} -> SUBSET {"soc", "stdin"}]
LineFlags ==
    /\ over \in {"tcp", "ssl"}
    /\ part \in BOOLEAN /\ hungup \in BOOLEAN /\ reset \in BOOLEAN /\ bye \in BOOLEAN
    /\ reset => hungup
    /\ at[Me] = "connect" => over = "ssl"
    /\ bye => at[Me] = "ended"
LineNumbers ==
    /\ taken[Me] <= buffered[Me] /\ buffered[Me] <= typed[Me] /\ typed[Me] <= MaxLines
    /\ sent \in Nat /\ answered \in Nat /\ displayed \in Nat
    /\ displayed <= answered /\ answered <= sent /\ sent <= taken[Me]

\* How far the client is: what it has read it has sent, but for the line in hand; a line
\* without its line feed is the last one and is not read; and when the loop has ended
\* for want of input there is nothing else that is not sent.
Progress ==
    /\ partial[Me] => taken[Me] < typed[Me]
    /\ at[Me] = "more" => partial[Me] /\ taken[Me] + 1 = typed[Me]
    /\ at[Me] \notin {"send", "ended"} => sent = taken[Me]
    /\ at[Me] = "send" => sent + 1 = taken[Me]
    /\ at[Me] = "ended" /\ ~hungup /\ (over = "ssl" => bye) => sent = L!Lines(Me)

LineInv == LineArrays /\ LineFlags /\ LineNumbers /\ Progress

LEMMA LineTypesHold == LineInv => L!TypeOK
  BY DEF LineInv, LineArrays, LineFlags, LineNumbers, L!TypeOK, L!LoopTypeOK

LEMMA LineStarts == L!Init => LineInv
<1> SUFFICES ASSUME L!Init PROVE LineInv
  OBVIOUS
<1>1. /\ typed = [u \in {Me} |-> 0] /\ partial = [u \in {Me} |-> FALSE]
      /\ closed = [u \in {Me} |-> u \in {}]
      /\ buffered = [u \in {Me} |-> 0] /\ taken = [u \in {Me} |-> 0] /\ found = [u \in {Me} |-> {}]
  BY DEF L!Init, L!LoopInit
<1>2. at = [u \in {Me} |-> IF over = "ssl" THEN "connect" ELSE "select"]
  BY DEF L!Init
<1>3. /\ over \in {"tcp", "ssl"} /\ sent = 0 /\ answered = 0 /\ displayed = 0
      /\ part = FALSE /\ hungup = FALSE /\ reset = FALSE /\ bye = FALSE
  BY DEF L!Init
<1>4. /\ typed[Me] = 0 /\ taken[Me] = 0 /\ buffered[Me] = 0 /\ ~partial[Me]
      /\ at[Me] = IF over = "ssl" THEN "connect" ELSE "select"
  BY <1>1, <1>2
<1>5. LineArrays
  BY <1>1, <1>2 DEF LineArrays, L!Places
<1>6. LineFlags
  BY <1>3, <1>4 DEF LineFlags
<1>7. LineNumbers
  BY <1>3, <1>4, ClientsAssumption DEF LineNumbers
<1>8. Progress
  BY <1>3, <1>4 DEF Progress
<1> QED
  BY <1>5, <1>6, <1>7, <1>8 DEF LineInv

LEMMA LineStep ==
  ASSUME LineInv, L!Loop \/ (L!World /\ at[Me] # "ended")
  PROVE  LineInv'
<1> USE DEF LineInv, LineArrays, L!Places, L!Lines, L!inputVars, L!loopVars, L!connVars, L!Goto
<1>1. CASE L!ServerAnswers
  <2>1. LineArrays'
    BY <1>1 DEF L!ServerAnswers
  <2>2. LineFlags'
    BY <1>1 DEF L!ServerAnswers, LineFlags
  <2>3. LineNumbers'
    BY <1>1, ClientsAssumption DEF L!ServerAnswers, LineNumbers
  <2>4. Progress'
    BY <1>1 DEF L!ServerAnswers, LineNumbers, LineFlags, Progress
  <2> QED  BY <2>1, <2>2, <2>3, <2>4
<1>2. CASE L!ServerCloses
  <2>1. LineArrays'
    BY <1>2 DEF L!ServerCloses
  <2>2. LineFlags'
    BY <1>2 DEF L!ServerCloses, LineFlags
  <2>3. LineNumbers'
    BY <1>2, ClientsAssumption DEF L!ServerCloses, LineNumbers
  <2>4. Progress'
    BY <1>2 DEF L!ServerCloses, LineNumbers, LineFlags, Progress
  <2> QED  BY <2>1, <2>2, <2>3, <2>4
<1>3. CASE at[Me] # "ended" /\ L!TypeLine(Me) /\ UNCHANGED <<L!loopVars, L!connVars>>
  <2>1. LineArrays'
    <3>1. partial' \in [{Me} -> BOOLEAN]
      <4>1. [partial EXCEPT ![Me] = TRUE] \in [{Me} -> BOOLEAN]
        OBVIOUS
      <4>2. partial' = partial \/ partial' = [partial EXCEPT ![Me] = TRUE]
        BY <1>3 DEF L!TypeLine
      <4> QED  BY <4>1, <4>2
    <3>2. typed' \in [{Me} -> Nat]
      BY <1>3 DEF L!TypeLine
    <3> QED  BY <1>3, <3>1, <3>2 DEF L!TypeLine
  <2>2. LineFlags'
    BY <1>3 DEF L!TypeLine, LineFlags
  <2>3. LineNumbers'
    BY <1>3, ClientsAssumption DEF L!TypeLine, LineNumbers
  <2>4. Progress'
    BY <1>3 DEF L!TypeLine, LineNumbers, LineFlags, Progress
  <2> QED  BY <2>1, <2>2, <2>3, <2>4
<1>4. CASE L!CloseInput(Me) /\ UNCHANGED <<L!loopVars, L!connVars>>
  <2>1. LineArrays'
    BY <1>4 DEF L!CloseInput
  <2>2. LineFlags'
    BY <1>4 DEF L!CloseInput, LineFlags
  <2>3. LineNumbers'
    BY <1>4, ClientsAssumption DEF L!CloseInput, LineNumbers
  <2>4. Progress'
    BY <1>4 DEF L!CloseInput, LineNumbers, LineFlags, Progress
  <2> QED  BY <2>1, <2>2, <2>3, <2>4
<1>5. CASE L!Handshake
  <2>1. LineArrays'
    BY <1>5 DEF L!Handshake
  <2>2. LineFlags'
    BY <1>5 DEF L!Handshake, LineFlags
  <2>3. LineNumbers'
    BY <1>5, ClientsAssumption DEF L!Handshake, LineNumbers
  <2>4. Progress'
    BY <1>5 DEF L!Handshake, LineNumbers, LineFlags, Progress
  <2> QED  BY <2>1, <2>2, <2>3, <2>4
<1>6. CASE L!Wait
  <2>1. LineArrays'
    BY <1>6 DEF L!Wait, L!Select
  <2>2. LineFlags'
    BY <1>6 DEF L!Wait, L!Select, LineFlags
  <2>3. LineNumbers'
    BY <1>6, ClientsAssumption DEF L!Wait, L!Select, LineNumbers
  <2>4. Progress'
    BY <1>6 DEF L!Wait, L!Select, LineNumbers, LineFlags, Progress
  <2> QED  BY <2>1, <2>2, <2>3, <2>4
<1>7. CASE L!Receive
  <2>1. LineArrays'
    BY <1>7 DEF L!Receive, L!SocDone
  <2>2. LineFlags'
    BY <1>7 DEF L!Receive, L!SocDone, LineFlags
  <2>3. LineNumbers'
    BY <1>7, ClientsAssumption DEF L!Receive, L!SocDone, LineNumbers
  <2>4. Progress'
    BY <1>7 DEF L!Receive, L!SocDone, LineNumbers, LineFlags, Progress
  <2> QED  BY <2>1, <2>2, <2>3, <2>4
<1>8. CASE L!EndOfStream
  <2>1. LineArrays'
    BY <1>8 DEF L!EndOfStream
  <2>2. LineFlags'
    BY <1>8 DEF L!EndOfStream, LineFlags
  <2>3. LineNumbers'
    BY <1>8, ClientsAssumption DEF L!EndOfStream, LineNumbers
  <2>4. Progress'
    BY <1>8 DEF L!EndOfStream, LineNumbers, LineFlags, Progress
  <2> QED  BY <2>1, <2>2, <2>3, <2>4
<1>9. CASE L!Fgets(Me) /\ UNCHANGED <<L!inputVars, L!connVars>>
  <2>1. LineArrays'
    BY <1>9 DEF L!Fgets
  <2>2. LineFlags'
    BY <1>9 DEF L!Fgets, LineFlags
  <2>3. LineNumbers'
    BY <1>9, ClientsAssumption DEF L!Fgets, LineNumbers
  <2>4. Progress'
    BY <1>9 DEF L!Fgets, LineNumbers, LineFlags, Progress
  <2> QED  BY <2>1, <2>2, <2>3, <2>4
<1>10. CASE L!EndOfInput(Me) /\ bye' = (over = "ssl")
           /\ UNCHANGED <<L!inputVars, over, sent, answered, part, displayed, hungup, reset>>
  <2>1. LineArrays'
    BY <1>10 DEF L!EndOfInput
  <2>2. LineFlags'
    BY <1>10 DEF L!EndOfInput, LineFlags
  <2>3. LineNumbers'
    BY <1>10, ClientsAssumption DEF L!EndOfInput, LineNumbers
  <2>4. Progress'
    BY <1>10 DEF L!EndOfInput, LineNumbers, LineFlags, Progress
  <2> QED  BY <2>1, <2>2, <2>3, <2>4
<1>11. CASE L!Send
  <2>1. LineArrays'
    BY <1>11 DEF L!Send
  <2>2. LineFlags'
    <3>1. UNCHANGED <<over, part, hungup, bye>> /\ ~bye
      BY <1>11 DEF L!Send, LineFlags
    <3>2. reset' = reset \/ reset' = FALSE \/ reset' = hungup
      BY <1>11 DEF L!Send
    <3>3. at' = [at EXCEPT ![Me] = "ended"] \/ at' = [at EXCEPT ![Me] = "select"]
      BY <1>11 DEF L!Send
    <3>4. at'[Me] # "connect"
      BY <3>3
    <3>5. reset' \in BOOLEAN /\ (reset' => hungup)
      <4>1. reset \in BOOLEAN /\ hungup \in BOOLEAN /\ (reset => hungup)
        BY DEF LineFlags
      <4>2. CASE reset' = reset
        BY <4>1, <4>2
      <4>3. CASE reset' = FALSE
        BY <4>3
      <4>4. CASE reset' = hungup
        BY <4>1, <4>4
      <4> QED  BY <3>2, <4>2, <4>3, <4>4
    <3> QED  BY <3>1, <3>4, <3>5 DEF LineFlags
  <2>3. LineNumbers'
    <3>1. sent' = sent \/ (sent' = sent + 1 /\ at[Me] = "send")
      BY <1>11 DEF L!Send
    <3>2. UNCHANGED <<typed, taken, buffered, answered, displayed>>
      BY <1>11 DEF L!Send
    <3>3. at[Me] = "send" => sent + 1 = taken[Me]
      BY DEF Progress
    <3>4. taken[Me] \in Nat /\ buffered[Me] \in Nat /\ typed[Me] \in Nat
      OBVIOUS
    <3> QED  BY <3>1, <3>2, <3>3, <3>4, ClientsAssumption DEF LineNumbers
  <2>4. Progress'
    BY <1>11 DEF L!Send, LineNumbers, LineFlags, Progress
  <2> QED  BY <2>1, <2>2, <2>3, <2>4
<1> QED
  BY <1>1, <1>2, <1>3, <1>4, <1>5, <1>6, <1>7, <1>8, <1>9, <1>10, <1>11
     DEF L!Loop, L!World, L!ReadLine, L!User, L!Input

---------------------------------------------------------------------------
(* The three side by side                                                  *)

IInv ==
    /\ kind \in {"telnet", "lines"} /\ (Lines => prog \in 1 .. 3)
    /\ Channel
    /\ prog \in 1 .. 3 => SingleInv
    /\ prog \notin 1 .. 3 => PairInv
    /\ LineInv

LEMMA StreamStarts ==
  ASSUME StreamInit
  PROVE  Channel /\ InStep /\ tty = "raw" /\ signals = 0
<1>1. Len(net) = 0 /\ net \in Seq(Kinds)
  BY EmptySeq DEF StreamInit
<1>2. Channel
  <2>1. 0 \in 0 .. MaxBytes /\ 0 \in 0 .. 2 /\ 0 + 0 <= 0
    BY TelnetAssumption
  <2>2. CommandsApart
    BY DEF StreamInit, CommandsApart
  <2>3. commands + Len(net) <= sentBytes /\ commands \in Nat /\ answers \in Nat
    BY <1>1 DEF StreamInit
  <2> QED  BY <1>1, <2>1, <2>2, <2>3 DEF StreamInit, Channel
<1>3. InStep
  <2> DEFINE f == [i \in 0 .. Len(net) |-> 0]
  <2>1. f \in [0 .. Len(net) -> 0 .. 2] /\ f[0] = 0 /\ f[Len(net)] = 0
    BY <1>1
  <2>2. Phase = 0 /\ place = 0
    BY DEF StreamInit, Phase
  <2>3. 1 .. Len(net) = {}
    BY <1>1
  <2> HIDE DEF f
  <2> QED  BY <2>1, <2>2, <2>3 DEF InStep
<1> QED  BY <1>2, <1>3 DEF StreamInit

LEMMA InitIInv == Init => IInv
<1> SUFFICES ASSUME Init PROVE IInv
  OBVIOUS
<1>1. LineInv
  BY LineStarts DEF Init
<1>2. 0 \in 0 .. MaxSignals
  BY TelnetAssumption
<1>3. StreamInit
  BY DEF Init, T!Init, P!Init, T!StreamInit, P!StreamInit, StreamInit
<1>4. prog \in 1 .. 5
  BY <1>3, TelnetAssumption DEF StreamInit
<1>5. CASE T!Init /\ prog \in 1 .. 3
  <2>1. SingleInv
    BY <1>2, <1>3, <1>5, StreamStarts DEF T!Init, SingleInv
  <2> QED  BY <1>1, <1>3, <1>5, <2>1, StreamStarts DEF Init, IInv
<1>6. CASE P!Init /\ prog \notin 1 .. 3
  <2>1. PairInv
    <3>1. g_end \in [{"main", "sender"} -> BOOLEAN]
      BY <1>6 DEF P!Init, P!Both
    <3>2. prog \in {4, 5}
      BY <1>4, <1>6
    <3>3. main = "start" /\ sender = "none" /\ known = FALSE /\ lone = FALSE
      BY <1>6 DEF P!Init
    <3> QED  BY <1>2, <1>3, <3>1, <3>2, <3>3, StreamStarts DEF PairInv, NobodyReads
  <2>2. ~Lines
    BY <1>6 DEF Init
  <2> QED  BY <1>1, <1>3, <1>6, <2>1, <2>2, StreamStarts DEF Init, IInv
<1> QED
  BY <1>5, <1>6 DEF Init

LEMMA StepIInv == IInv /\ [Next]_vars => IInv'
<1> SUFFICES ASSUME IInv, [Next]_vars PROVE IInv'
  OBVIOUS
<1>1. ASSUME UNCHANGED streamVars PROVE Channel' = Channel /\ InStep' = InStep
  <2>1. UNCHANGED <<prog, key, net, sentBytes, place, fin, broken, rp, shown, commands, answers>>
    BY <1>1 DEF streamVars, worldVars, dataVars
  <2>2. Phase' = Phase
    BY <2>1 DEF Phase
  <2> QED  BY <2>1, <2>2 DEF Channel, InStep, CommandsApart
<1>2. ASSUME UNCHANGED lineVars PROVE LineInv'
  BY <1>2 DEF IInv, lineVars, LineInv, LineArrays, LineFlags, LineNumbers, Progress, L!Lines
<1>3. ASSUME UNCHANGED telnetVars
      PROVE  Channel' /\ (prog' \in 1 .. 3 => SingleInv') /\ (prog' \notin 1 .. 3 => PairInv')
             /\ prog' = prog
  <2>1. UNCHANGED <<streamVars, pc, ready, errno, main, sender, known, lone, g_end, tty, signals, prog>>
    BY <1>3 DEF telnetVars, streamVars, worldVars
  <2> QED  BY <1>1, <2>1 DEF IInv, SingleInv, PairInv, NobodyReads
<1>4. ASSUME Moves \/ UNCHANGED <<worldVars, dataVars>>
      PROVE  Channel' /\ prog' = prog
  <2>1. CASE Moves
    <3>1. prog' = prog
      BY <2>1 DEF Moves, World, ServerSends, ServerCloses, Press, InCommand, BeginCommand, TakeVerb,
                  TakeOption, MissEnd, DataDone, ShowByte, SendWont, KeySent, Take, worldVars
    <3> QED  BY <2>1, <3>1, ChannelStep DEF IInv
  <2>2. CASE UNCHANGED <<worldVars, dataVars>>
    BY <2>2 DEF worldVars, dataVars, Channel, CommandsApart, IInv
  <2> QED  BY <1>4, <2>1, <2>2
<1>5. CASE Alone /\ (T!Loop \/ T!SigTerm) /\ UNCHANGED <<kind, pair, lineVars>>
  <2>1. Channel /\ SingleInv /\ prog \in 1 .. 3 /\ kind' = kind
    BY <1>5 DEF IInv, Alone
  <2>2. SingleInv' /\ Channel' /\ prog' = prog
    BY <1>4, <1>5, <2>1, SingleStep, SingleMoves
  <2> QED  BY <1>2, <1>5, <2>1, <2>2 DEF IInv, Lines
<1>6. CASE Paired /\ (P!Main \/ P!Sender \/ P!SigTerm) /\ UNCHANGED <<kind, single, lineVars>>
  <2>1. Channel /\ PairInv /\ prog \notin 1 .. 3 /\ kind' = kind /\ ~Lines
    BY <1>6 DEF IInv, Paired, Lines
  <2>2. PairInv' /\ Channel' /\ prog' = prog
    BY <1>4, <1>6, <2>1, PairStep, PairMoves DEF Channel
  <2> QED  BY <1>2, <1>6, <2>1, <2>2 DEF IInv, Lines
<1>7. CASE Lines /\ (L!Loop \/ (L!World /\ ~Over)) /\ UNCHANGED <<kind, telnetVars>>
  <2>1. L!World /\ ~Over => at[Me] # "ended"
    BY <1>7 DEF Over, Alone, Paired, Lines, L!Over
  <2>2. LineInv'
    BY <1>7, <2>1, LineStep DEF IInv
  <2> QED  BY <1>3, <1>7, <2>2 DEF IInv, Lines
<1>8. CASE ~Lines /\ World /\ UNCHANGED <<kind, single, pair, g_end, lineVars>>
  <2>1. Channel' /\ prog' = prog
    BY <1>4, <1>8 DEF Moves
  <2>2. InStep => InStep'
    BY <1>8, StaysInStep DEF IInv
  <2>3. UNCHANGED <<tty, signals, pc, ready, errno, main, sender, known, lone, g_end>>
    BY <1>8 DEF single, pair, World, ServerSends, ServerCloses, Press
  <2>4. SingleInv => SingleInv'
    BY <2>1, <2>2, <2>3 DEF SingleInv
  <2>5. PairInv => PairInv'
    BY <2>1, <2>2, <2>3 DEF PairInv, NobodyReads
  <2> QED  BY <1>2, <1>8, <2>1, <2>4, <2>5 DEF IInv, Lines
<1>9. CASE UNCHANGED vars
  BY <1>2, <1>3, <1>9 DEF vars, IInv, Lines
<1> QED
  BY <1>5, <1>6, <1>7, <1>8, <1>9 DEF Next, Loop, Main, Sender, SigTerm, LineLoop, Outside

---------------------------------------------------------------------------
(* The theorems                                                            *)

THEOREM InductiveInvariant == Spec => []IInv
  BY InitIInv, StepIInv, PTL DEF Spec

\* telnet1.c, telnet2.c, telnet4.c and telnet5.c: however the bytes come in and whenever
\* a signal does, no byte of a command is shown as text, and each command is answered once.
THEOREM CommandsCorrect == Spec => []CommandsApart
<1>1. IInv => CommandsApart
  BY DEF IInv, Channel
<1> QED  BY InductiveInvariant, <1>1, PTL

\* telnet1.c to telnet5.c: the terminal is as it was when the program ends, and until
\* then, whoever still reads the keyboard finds it raw.  And the variables of each of the
\* clients keep their types.
THEOREM TerminalCorrect == Spec => []TerminalGivenBack
<1>1. ASSUME IInv PROVE TypeOK
  <2>1. prog \in 1 .. 5
    BY <1>1, TelnetAssumption DEF IInv, Channel
  <2>2. commands \in 0 .. MaxBytes
    <3>1. Len(net) \in Nat
      BY <1>1, SocketFacts DEF IInv
    <3> QED  BY <1>1, <3>1, TelnetAssumption DEF IInv, Channel
  <2>3. CASE Alone
    BY <1>1, <2>2, <2>3
       DEF IInv, TypeOK, Alone, Paired, Lines, SingleInv, Channel, T!TypeOK, T!StreamTypeOK, T!Kinds, Kinds
  <2>4. CASE Paired
    BY <1>1, <2>2, <2>4
       DEF IInv, TypeOK, Alone, Paired, Lines, PairInv, Channel, P!TypeOK, P!StreamTypeOK, P!Both,
           P!Kinds, Kinds
  <2>5. CASE Lines
    BY <1>1, <2>5, LineTypesHold DEF IInv, TypeOK, Alone, Paired, Lines
  <2> QED  BY <1>1, <2>3, <2>4, <2>5 DEF IInv, Alone, Paired, Lines
<1>2. ASSUME IInv, ~Lines
      PROVE  /\ (IF Alone THEN pc = "ended" ELSE main = "ended" /\ ~lone) => tty = "cooked"
             /\ tty = "cooked" /\ (prog = 4 => signals = 0) => ~Reading
  <2>1. CASE Alone
    BY <1>2, <2>1 DEF IInv, Alone, SingleInv, Reading
  <2>2. CASE ~Alone
    <3>1. PairInv
      BY <1>2, <2>2 DEF IInv, Alone, Lines
    <3>2. prog = 5 /\ main = "ended" => P!Orphaned
      BY DEF P!Orphaned, P!Over
    <3> QED  BY <2>2, <3>1, <3>2 DEF PairInv, NobodyReads, Reading
  <2> QED  BY <2>1, <2>2
<1>3. IInv => TerminalGivenBack
  BY <1>1, <1>2 DEF TerminalGivenBack
<1> QED  BY InductiveInvariant, <1>3, PTL

\* client.c, client-2.c, client-timeout.c and ssl-client.c: for any number of lines, read
\* from a terminal or several at once from a pipe, a client that ends for want of input
\* has sent all of them.
THEOREM LinesCorrect == Spec => []NothingTypedIsLost
<1>1. IInv => NothingTypedIsLost
  BY DEF IInv, LineInv, Progress, NothingTypedIsLost, L!NothingTypedIsLost, L!Over
<1> QED  BY InductiveInvariant, <1>1, PTL
=============================================================================
