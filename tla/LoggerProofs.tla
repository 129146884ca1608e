---------------------------- MODULE LoggerProofs ----------------------------
(* The Logger keeps its types, implements LogFiles, writes to the file of the  *)
(* hour, and forgets no old file.                                              *)
EXTENDS Logger, SequenceTheorems, TLAPS

\* A thread inside Print holds the mutex; only the Open of wmain, before there
\* are other threads, is without it.
Exclusive ==
  \A t \in Thread : pc[t] # "idle" =>
    \/ print_ = t
    \/ t = Main /\ print_ = NoThread /\ pc[t] \in {"name", "open"}

\* No file is newer than the one named last, which exists while it is open.
Newest ==
  /\ \A f \in DOMAIN files : f <= now /\ (name # Unset => f <= name)
  /\ name <= now
  /\ is_open => name \in DOMAIN files
  /\ \A t \in Thread : /\ pc[t] = "name" => ~is_open
                       /\ pc[t] = "open" => name # Unset

\* The hour of a line that can follow those of the open file.
Following(hour) ==
  /\ hour \in 0 .. now /\ name <= hour
  /\ \A k \in DOMAIN files[name] : HourOf(files[name][k]) <= hour

\* What has been sent is a beginning of the line of the thread that is printing.
BufferInv ==
  /\ (\A t \in Thread : pc[t] \notin {"message", "flush"}) \/ ~is_open => buffer = << >>
  /\ \A t \in Thread :
       /\ pc[t] = "message" /\ is_open =>
            \E hour \in 0 .. now : buffer = <<TimePiece(t, hour)>> /\ Following(hour)
       /\ pc[t] = "flush" /\ is_open =>
            \E hour \in 0 .. now : buffer = Line(t, hour) /\ Following(hour)

\* What a clean-up is about to remove is older than the shortest retention.
Limits == \A c \in cleaners : \A f \in c.todo : c.begun => f + Shortest < now

LogInv == TypeOK /\ Exclusive /\ Newest /\ BufferInv /\ Limits

-----------------------------------------------------------------------------
\* The hour in the time of a line is its hour (the line of Print, CurTime).
LEMMA HourOfLine ==
  ASSUME NEW t, NEW hour
  PROVE  HourOf(Line(t, hour)) = hour
  BY DEF HourOf, Line, TimePiece

\* A time and a message, sent one after the other, make a line (Print).
LEMMA TwoPieces ==
  ASSUME NEW t, NEW hour
  PROVE  Append(<<TimePiece(t, hour)>>, MessagePiece(t)) = Line(t, hour)
<1> DEFINE first == TimePiece(t, hour)
           second == MessagePiece(t)
           both == Append(<<first>>, second)
           line == <<first, second>>
<1>1. first \in {first, second} /\ second \in {first, second}
  OBVIOUS
<1> HIDE DEF first, second
<1>2. both \in Seq({first, second}) /\ line \in Seq({first, second})
  BY <1>1
<1>3. Len(both) = 2 /\ Len(line) = 2
  BY <1>1
<1>4. \A k \in 1 .. 2 : both[k] = line[k]
  BY <1>1
<1>5. both = line
  BY <1>2, <1>3, <1>4, SeqEqual
<1> QED
  BY <1>5 DEF Line, first, second

\* Lines remain lines as the hours pass (CurTime).
LEMMA MoreLines ==
  ASSUME NEW m \in Nat, NEW n \in Nat, m <= n
  PROVE  /\ \A s \in Seq(Lines(m)) : s \in Seq(Lines(n))
         /\ \A s \in Seq(Pieces(m)) : s \in Seq(Pieces(n))
<1>1. Lines(m) \subseteq Lines(n)
  BY DEF Lines
<1>2. Pieces(m) \subseteq Pieces(n)
  BY DEF Pieces
<1> QED
  BY <1>1, <1>2

\* A line of a file has an hour (Print, CurTime).
LEMMA LineHours ==
  ASSUME NEW last \in Nat, NEW s \in Seq(Lines(last)), NEW k \in DOMAIN s
  PROVE  HourOf(s[k]) \in 0 .. last
<1>1. s[k] \in Lines(last)
  OBVIOUS
<1> QED
  BY <1>1, HourOfLine DEF Lines

\* While a thread is inside Print, every other thread is outside (print_).
LEMMA OthersIdle ==
  ASSUME TypeOK, Exclusive, NEW t \in Thread, pc[t] # "idle", NEW u \in Thread, u # t
  PROVE  pc[u] = "idle"
  BY LoggerAssumption DEF Exclusive

\* A thread that gets the mutex finds every thread outside (Print, print_).
LEMMA AllIdle ==
  ASSUME TypeOK, Exclusive, Started, print_ = NoThread
  PROVE  \A t \in Thread : pc[t] = "idle"
  BY LoggerAssumption DEF Exclusive, Started

-----------------------------------------------------------------------------
\* The invariant holds when wmain calls Open.
LEMMA InitKeepsInv == Init => LogInv
<1> SUFFICES ASSUME Init PROVE LogInv
  OBVIOUS
<1>1. TypeOK
  BY LoggerAssumption, EmptySeq DEF Init, TypeOK, Unset
<1>2. Exclusive
  BY DEF Init, Exclusive
<1>3. Newest
  BY LoggerAssumption DEF Init, Newest, Unset
<1>4. BufferInv
  BY DEF Init, BufferInv
<1>5. Limits
  BY DEF Init, Limits
<1> QED
  BY <1>1, <1>2, <1>3, <1>4, <1>5 DEF LogInv

\* Taking the mutex and testing the hour keep the invariant (NewFile).
LEMMA LockKeepsInv ==
  ASSUME LogInv, NEW t \in Thread, Lock(t)
  PROVE  LogInv'
<1> USE DEF LogInv
<1>1. \A u \in Thread : pc[u] = "idle"
  BY AllIdle DEF Lock, Free
<1>2. TypeOK'
  BY DEF Lock, TypeOK, Goto
<1>3. Exclusive'
  BY <1>1 DEF Lock, TypeOK, Goto, Exclusive
<1>4. Newest'
  BY <1>1 DEF Lock, TypeOK, Goto, Newest
<1>5. BufferInv'
  BY <1>1 DEF Lock, TypeOK, Goto, BufferInv
<1>6. Limits'
  BY DEF Lock, Limits
<1> QED
  BY <1>2, <1>3, <1>4, <1>5, <1>6

\* The first half of Open keeps the invariant.
LEMMA NameFileKeepsInv ==
  ASSUME LogInv, NEW t \in Thread, NameFile(t)
  PROVE  LogInv'
<1> USE DEF LogInv
<1>1. \A u \in Thread \ {t} : pc[u] = "idle"
  BY OthersIdle DEF NameFile
<1>2. TypeOK'
  BY LoggerAssumption DEF NameFile, TypeOK, Goto, history
<1>3. Exclusive'
  BY <1>1 DEF NameFile, TypeOK, Goto, Exclusive
<1>4. Newest'
  BY <1>1 DEF NameFile, TypeOK, Goto, Newest, Unset
<1>5. BufferInv'
  BY <1>1 DEF NameFile, TypeOK, Goto, BufferInv, Newest
<1>6. Limits'
  BY DEF NameFile, Limits
<1> QED
  BY <1>2, <1>3, <1>4, <1>5, <1>6

\* The second half of Open keeps the invariant.
LEMMA OpenFileKeepsInv ==
  ASSUME LogInv, NEW t \in Thread, OpenFile(t)
  PROVE  LogInv'
<1> USE DEF LogInv
<1>1. \A u \in Thread \ {t} : pc[u] = "idle"
  BY OthersIdle DEF OpenFile
<1>2. name \in Nat
  BY DEF OpenFile, TypeOK, Newest
<1>3. TypeOK'
  <2>1. /\ DOMAIN files' \subseteq Nat
        /\ \A f \in DOMAIN files' : files'[f] \in Seq(Lines(now))
    BY <1>2, EmptySeq DEF OpenFile, TypeOK
  <2>2. cleaners' \subseteq [duration : {DefaultDuration, Setting}, begun : BOOLEAN,
                            todo : SUBSET Nat]
    <3> DEFINE new == NewCleaner(log_storage_duration_)
    <3>1. new \in [duration : {DefaultDuration, Setting}, begun : BOOLEAN, todo : SUBSET Nat]
      BY DEF TypeOK, NewCleaner
    <3> HIDE DEF new
    <3>2. cleaners' = cleaners \cup {new}
      BY DEF OpenFile, MoreCleaners, new
    <3> QED
      BY <3>1, <3>2 DEF TypeOK
  <2> QED
    BY <2>1, <2>2, LoggerAssumption DEF OpenFile, TypeOK, Goto, history
<1>4. Exclusive'
  BY <1>1 DEF OpenFile, TypeOK, Goto, Exclusive
<1>5. Newest'
  BY <1>1, <1>2 DEF OpenFile, TypeOK, Goto, Newest, Unset
<1>6. BufferInv'
  BY <1>1 DEF OpenFile, TypeOK, Goto, BufferInv
<1>7. Limits'
  BY DEF OpenFile, Limits, MoreCleaners, NewCleaner
<1> QED
  BY <1>3, <1>4, <1>5, <1>6, <1>7

\* Dropping a message, or going on with it, keeps the invariant (Print).
LEMMA FilterKeepsInv ==
  ASSUME LogInv, NEW t \in Thread, Filter(t)
  PROVE  LogInv'
<1> USE DEF LogInv, stream
<1>1. \A u \in Thread \ {t} : pc[u] = "idle"
  BY OthersIdle DEF Filter
<1>2. TypeOK'
  BY LoggerAssumption DEF Filter, TypeOK, Goto, history
<1>3. Exclusive'
  BY <1>1 DEF Filter, TypeOK, Goto, Exclusive
<1>4. Newest'
  BY <1>1 DEF Filter, TypeOK, Goto, Newest
<1>5. BufferInv'
  BY <1>1 DEF Filter, TypeOK, Goto, BufferInv
<1>6. Limits'
  BY DEF Filter, Limits
<1> QED
  BY <1>2, <1>3, <1>4, <1>5, <1>6

\* The time begins the line, and no line of the file has a later one (Print,
\* CurTime).
LEMMA PrintTimeKeepsInv ==
  ASSUME LogInv, NEW t \in Thread, PrintTime(t)
  PROVE  LogInv'
<1> USE DEF LogInv
<1>1. \A u \in Thread \ {t} : pc[u] = "idle"
  BY OthersIdle DEF PrintTime
<1>2. buffer = << >>
  BY <1>1 DEF PrintTime, BufferInv
<1>3. TypeOK'
  <2>1. TimePiece(t, now) \in Pieces(now)
    BY DEF Pieces, TypeOK
  <2>2. buffer' \in Seq(Pieces(now))
    BY <2>1 DEF PrintTime, Send, TypeOK
  <2> QED
    BY <2>2, LoggerAssumption DEF PrintTime, TypeOK, Goto, history
<1>4. Exclusive'
  BY <1>1 DEF PrintTime, TypeOK, Goto, Exclusive
<1>5. Newest'
  BY <1>1 DEF PrintTime, TypeOK, Goto, Newest
<1>6. is_open => Following(now)
  <2> SUFFICES ASSUME is_open PROVE Following(now)
    OBVIOUS
  <2>1. name \in DOMAIN files /\ name <= now
    BY DEF Newest
  <2>2. \A k \in DOMAIN files[name] : HourOf(files[name][k]) <= now
    BY <2>1, LineHours DEF TypeOK
  <2> QED
    BY <2>1, <2>2 DEF Following, TypeOK
<1>7. Following(now)' <=> Following(now)
  BY DEF PrintTime, Following
<1>8. is_open => buffer' = <<TimePiece(t, now)>>
  BY <1>2 DEF PrintTime, Send
<1>9. BufferInv'
  <2>1. ~is_open => buffer' = << >>
    BY <1>2 DEF PrintTime, Send
  <2>2. pc' = [u \in Thread |-> IF u = t THEN "message" ELSE pc[u]]
    BY DEF PrintTime, Goto, TypeOK
  <2>3. is_open' = is_open /\ now' = now /\ now \in 0 .. now
    BY DEF PrintTime, TypeOK
  <2>4. is_open => \E hour \in 0 .. now : buffer' = <<TimePiece(t, hour)>> /\ Following(hour)'
    BY <1>6, <1>8, <2>3 DEF PrintTime, Following
  <2> QED
    BY <1>1, <2>1, <2>2, <2>3, <2>4 DEF BufferInv
<1>10. Limits'
  BY DEF PrintTime, Limits
<1> QED
  BY <1>3, <1>4, <1>5, <1>9, <1>10

\* The message completes the line (Print).
LEMMA PrintMessageKeepsInv ==
  ASSUME LogInv, NEW t \in Thread, PrintMessage(t)
  PROVE  LogInv'
<1> USE DEF LogInv
<1>1. \A u \in Thread \ {t} : pc[u] = "idle"
  BY OthersIdle DEF PrintMessage
<1>2. TypeOK'
  <2>1. MessagePiece(t) \in Pieces(now)
    BY DEF Pieces
  <2>2. buffer' \in Seq(Pieces(now))
    BY <2>1 DEF PrintMessage, Send, TypeOK
  <2> QED
    BY <2>2, LoggerAssumption DEF PrintMessage, TypeOK, Goto, history
<1>3. Exclusive'
  BY <1>1 DEF PrintMessage, TypeOK, Goto, Exclusive
<1>4. Newest'
  BY <1>1 DEF PrintMessage, TypeOK, Goto, Newest
<1>5. BufferInv'
  <2>1. ~is_open => buffer' = << >>
    BY DEF PrintMessage, Send, BufferInv
  <2>2. pc' = [u \in Thread |-> IF u = t THEN "flush" ELSE pc[u]]
    BY DEF PrintMessage, Goto, TypeOK
  <2>3. is_open' = is_open /\ now' = now /\ \A hour : Following(hour)' <=> Following(hour)
    BY DEF PrintMessage, Following
  <2>4. is_open => \E hour \in 0 .. now : buffer' = Line(t, hour) /\ Following(hour)
    <3> SUFFICES ASSUME is_open
                 PROVE  \E hour \in 0 .. now : buffer' = Line(t, hour) /\ Following(hour)
      OBVIOUS
    <3>1. PICK hour \in 0 .. now : buffer = <<TimePiece(t, hour)>> /\ Following(hour)
      BY DEF PrintMessage, BufferInv
    <3>2. buffer' = Line(t, hour)
      BY <3>1, TwoPieces DEF PrintMessage, Send
    <3> QED
      BY <3>1, <3>2
  <2> QED
    BY <1>1, <2>1, <2>2, <2>3, <2>4 DEF BufferInv
<1>6. Limits'
  BY DEF PrintMessage, Limits
<1> QED
  BY <1>2, <1>3, <1>4, <1>5, <1>6

\* The line that is flushed is one that may follow those of the file (Print).
LEMMA FlushedLine ==
  ASSUME LogInv, NEW t \in Thread, Flush(t), is_open
  PROVE  \E hour \in 0 .. now : buffer = Line(t, hour) /\ Following(hour)
  BY DEF LogInv, Flush, BufferInv

\* Flushing the line keeps the invariant (Print).
LEMMA FlushKeepsInv ==
  ASSUME LogInv, NEW t \in Thread, Flush(t)
  PROVE  LogInv'
<1> USE DEF LogInv
<1>1. \A u \in Thread \ {t} : pc[u] = "idle"
  BY OthersIdle DEF Flush
<1>2. TypeOK'
  <2>1. is_open => buffer \in Lines(now) /\ name \in DOMAIN files
    BY FlushedLine DEF Lines, Newest
  <2>2. /\ DOMAIN files' \subseteq Nat
        /\ \A f \in DOMAIN files' : files'[f] \in Seq(Lines(now))
    BY <2>1 DEF Flush, TypeOK
  <2>3. buffer' \in Seq(Pieces(now))
    BY EmptySeq DEF Flush
  <2> QED
    BY <2>2, <2>3, LoggerAssumption DEF Flush, TypeOK, Goto
<1>3. Exclusive'
  BY <1>1 DEF Flush, TypeOK, Goto, Exclusive
<1>4. Newest'
  BY <1>1 DEF Flush, TypeOK, Goto, Newest
<1>5. BufferInv'
  BY <1>1 DEF Flush, TypeOK, Goto, BufferInv
<1>6. Limits'
  BY DEF Flush, Limits
<1> QED
  BY <1>2, <1>3, <1>4, <1>5, <1>6

\* The setting is one of the two retentions there are (SetLogStorageDuration).
LEMMA SettingKeepsInv ==
  ASSUME LogInv, SetLogStorageDuration
  PROVE  LogInv'
<1> USE DEF LogInv, SetLogStorageDuration, stream
<1>1. TypeOK'
  BY DEF TypeOK
<1>2. Exclusive' /\ Newest' /\ Limits'
  BY DEF Exclusive, Newest, Limits
<1>3. BufferInv'
  BY DEF BufferInv, Following
<1> QED
  BY <1>1, <1>2, <1>3

\* The steps of the clean-up threads keep the invariant: the open file is not
\* removed, and what is old stays old (DeleteLogHistory).
LEMMA CleanUpKeepsInv ==
  ASSUME LogInv, CleanUp
  PROVE  LogInv'
<1> USE DEF LogInv, stream
<1>1. PICK c \in cleaners : \/ BeginCleanUp(c)
                            \/ \E f \in c.todo : RemoveFile(c, f)
                            \/ EndCleanUp(c)
  BY DEF CleanUp
<1> DEFINE Cleaner == [duration : {DefaultDuration, Setting}, begun : BOOLEAN, todo : SUBSET Nat]
<1>2. c \in Cleaner
  BY DEF TypeOK
<1>3. CASE BeginCleanUp(c)
  <2> DEFINE d == [c EXCEPT !.begun = TRUE, !.todo = Old(c.duration)]
  <2>1. d \in Cleaner /\ cleaners' = (cleaners \ {c}) \cup {d}
    BY <1>2, <1>3 DEF BeginCleanUp, Old, TypeOK
  <2>2. \A f \in d.todo : f + Shortest < now
    BY <1>2, LoggerAssumption DEF Old, TypeOK
  <2> HIDE DEF d
  <2>3. TypeOK'
    BY <1>3, <2>1 DEF BeginCleanUp, TypeOK, history
  <2>4. Exclusive' /\ Newest'
    BY <1>3 DEF BeginCleanUp, Exclusive, Newest
  <2>5. BufferInv'
    BY <1>3 DEF BeginCleanUp, BufferInv, Following
  <2>6. Limits'
    BY <1>3, <2>1, <2>2 DEF BeginCleanUp, Limits
  <2> QED
    BY <2>3, <2>4, <2>5, <2>6
<1>4. ASSUME NEW f \in c.todo, RemoveFile(c, f) PROVE LogInv'
  <2> DEFINE d == [c EXCEPT !.todo = @ \ {f}]
  <2>1. /\ d \in Cleaner /\ d.todo \subseteq c.todo /\ d.begun = c.begun
        /\ cleaners' = (cleaners \ {c}) \cup {d}
    BY <1>2, <1>4 DEF RemoveFile
  <2>2. f \in Nat
    BY <1>2
  <2> HIDE DEF d
  <2>3. /\ DOMAIN files' \subseteq DOMAIN files
        /\ \A g \in DOMAIN files' : files'[g] = files[g]
        /\ is_open /\ name \in DOMAIN files => name \in DOMAIN files'
    BY <1>4 DEF RemoveFile
  <2>4. UNCHANGED <<now, print_, pc, cur_hour_, name, is_open, buffer, log_storage_duration_,
                    checked, configured, lines>>
    BY <1>4 DEF RemoveFile
  <2>5. stuck' \subseteq Nat
    BY <1>4, <2>2 DEF RemoveFile, TypeOK
  <2>6. TypeOK'
    BY <2>1, <2>3, <2>4, <2>5 DEF TypeOK
  <2>7. Exclusive'
    BY <2>4 DEF Exclusive
  <2>8. Newest'
    BY <2>3, <2>4 DEF Newest
  <2>9. is_open => \A hour : Following(hour)' <=> Following(hour)
    BY <2>3, <2>4 DEF Following, Newest
  <2>10. BufferInv'
    BY <2>4, <2>9 DEF BufferInv
  <2>11. Limits'
    BY <2>1, <2>4 DEF Limits
  <2> QED
    BY <2>6, <2>7, <2>8, <2>10, <2>11
<1>5. CASE EndCleanUp(c)
  <2>1. TypeOK'
    BY <1>5 DEF EndCleanUp, TypeOK, history
  <2>2. Exclusive' /\ Newest' /\ Limits'
    BY <1>5 DEF EndCleanUp, Exclusive, Newest, Limits
  <2>3. BufferInv'
    BY <1>5 DEF EndCleanUp, BufferInv, Following
  <2> QED
    BY <2>1, <2>2, <2>3
<1> QED
  BY <1>1, <1>3, <1>4, <1>5

\* An hour that passes keeps the invariant.
LEMMA TickKeepsInv ==
  ASSUME LogInv, Tick
  PROVE  LogInv'
<1> USE DEF LogInv, stream
<1>1. now \in Nat /\ now' = now + 1 /\ now' \in Nat /\ now <= now'
  BY DEF Tick, TypeOK
<1>2. TypeOK'
  BY <1>1, MoreLines DEF Tick, TypeOK, history
<1>3. Exclusive'
  BY DEF Tick, Exclusive
<1>4. Newest'
  <2>1. \A f \in DOMAIN files : f <= now'
    BY <1>1 DEF Newest, TypeOK
  <2>2. name <= now'
    BY <1>1 DEF Newest, TypeOK, Unset
  <2> QED
    BY <2>1, <2>2 DEF Tick, Newest
<1>5. BufferInv'
  <2>1. \A hour \in 0 .. now : hour \in 0 .. now' /\ (Following(hour) => Following(hour)')
    BY <1>1 DEF Tick, Following
  <2> QED
    BY <2>1 DEF Tick, BufferInv
<1>6. Limits'
  BY <1>1, LoggerAssumption DEF Tick, Limits, TypeOK
<1> QED
  BY <1>2, <1>3, <1>4, <1>5, <1>6

\* A step that changes nothing keeps the invariant.
LEMMA StutterKeepsInv ==
  ASSUME LogInv, UNCHANGED vars
  PROVE  LogInv'
<1> USE DEF LogInv, vars, stream, history
<1>1. TypeOK'
  BY DEF TypeOK
<1>2. Exclusive' /\ Newest' /\ Limits'
  BY DEF Exclusive, Newest, Limits
<1>3. BufferInv'
  BY DEF BufferInv, Following
<1> QED
  BY <1>1, <1>2, <1>3

\* The mutex, the names of the files, the buffer of the stream and the lists of the
\* clean-ups agree at every moment, for any threads, retentions and failures (Print,
\* NewFile, Open, SetLogStorageDuration, DeleteLogHistory).
THEOREM LogInvariant == Spec => []LogInv
<1>1. LogInv /\ [Next]_vars => LogInv'
  BY LockKeepsInv, NameFileKeepsInv, OpenFileKeepsInv, FilterKeepsInv, PrintTimeKeepsInv,
     PrintMessageKeepsInv, FlushKeepsInv, SettingKeepsInv, CleanUpKeepsInv, TickKeepsInv,
     StutterKeepsInv
     DEF Next, PrintLine
<1> QED
  BY InitKeepsInv, <1>1, PTL DEF Spec

\* The logger keeps its types: in particular every line of every file is the time
\* and the message of one call of Print.
THEOREM LoggerTypeOK == Spec => []TypeOK
<1>1. LogInv => TypeOK
  BY DEF LogInv
<1> QED
  BY LogInvariant, <1>1, PTL

-----------------------------------------------------------------------------
\* A step of a thread inside Print is a step of LogFiles, or none that it sees.
LEMMA PrintImplements ==
  ASSUME LogInv, NEW t \in Thread, PrintLine(t)
  PROVE  [NextFiles]_<<now, files>>
<1>1. CASE OpenFile(t)
  <2>1. name \in 0 .. now /\ NewestIs(name)
    BY <1>1 DEF OpenFile, LogInv, TypeOK, Newest, NewestIs
  <2>2. CASE is_open' /\ name \notin DOMAIN files
    <3>1. Create(name)
      BY <1>1, <2>1, <2>2 DEF OpenFile, Create
    <3> QED
      BY <2>1, <3>1 DEF NextFiles
  <2>3. CASE ~(is_open' /\ name \notin DOMAIN files)
    BY <1>1, <2>3 DEF OpenFile
  <2> QED
    BY <2>2, <2>3
<1>2. CASE Flush(t)
  <2>1. CASE is_open
    <3>1. PICK hour \in 0 .. now : buffer = Line(t, hour) /\ Following(hour)
      BY <1>2, <2>1, FlushedLine
    <3>2. name \in DOMAIN files /\ NewestIs(name)
      BY <2>1 DEF LogInv, TypeOK, Newest, NewestIs, Unset
    <3>3. Write(name, t, hour)
      BY <1>2, <2>1, <3>1, <3>2 DEF Flush, Write, Following
    <3> QED
      BY <3>2, <3>3 DEF NextFiles
  <2>2. CASE ~is_open
    BY <1>2, <2>2 DEF Flush
  <2> QED
    BY <2>1, <2>2
<1>3. CASE Lock(t) \/ NameFile(t) \/ Filter(t) \/ PrintTime(t) \/ PrintMessage(t)
  BY <1>3 DEF Lock, NameFile, Filter, PrintTime, PrintMessage
<1> QED
  BY <1>1, <1>2, <1>3 DEF PrintLine

\* A step of a clean-up thread is the removal of an old file, or none that LogFiles
\* sees.
LEMMA CleanUpImplements ==
  ASSUME LogInv, CleanUp
  PROVE  [NextFiles]_<<now, files>>
<1>1. PICK c \in cleaners : \/ BeginCleanUp(c)
                            \/ \E f \in c.todo : RemoveFile(c, f)
                            \/ EndCleanUp(c)
  BY DEF CleanUp
<1>2. ASSUME NEW f \in c.todo, RemoveFile(c, f) PROVE [NextFiles]_<<now, files>>
  <2>1. f + Shortest < now
    BY <1>2 DEF RemoveFile, LogInv, Limits
  <2>2. f \in DOMAIN files /\ files' = [g \in DOMAIN files \ {f} |-> files[g]] => Remove(f)
    BY <1>2, <2>1 DEF RemoveFile, Remove
  <2> QED
    BY <1>2, <2>2 DEF RemoveFile, NextFiles
<1> QED
  BY <1>1, <1>2 DEF BeginCleanUp, EndCleanUp

\* The Logger implements LogFiles: whatever the threads, the clock, the clean-ups and
\* the file system do, lines reach the newest file whole and in order, and only files
\* older than the shortest retention go.
THEOREM LoggerImplementsFiles == Spec => ImplementsLogFiles
<1>1. Init => InitFiles
  BY LoggerAssumption DEF Init, InitFiles
<1>2. LogInv /\ [Next]_vars => [NextFiles]_<<now, files>>
  <2> SUFFICES ASSUME LogInv, [Next]_vars PROVE [NextFiles]_<<now, files>>
    OBVIOUS
  <2>1. ASSUME NEW t \in Thread, PrintLine(t) PROVE [NextFiles]_<<now, files>>
    BY <2>1, PrintImplements
  <2>2. CASE SetLogStorageDuration \/ UNCHANGED vars
    BY <2>2 DEF SetLogStorageDuration, vars
  <2>3. CASE CleanUp
    BY <2>3, CleanUpImplements
  <2>4. CASE Tick
    BY <2>4 DEF Tick, NextFiles, Pass, LogInv, TypeOK
  <2> QED
    BY <2>1, <2>2, <2>3, <2>4 DEF Next
<1> QED
  BY LogInvariant, <1>1, <1>2, PTL DEF Spec, ImplementsLogFiles, SpecFiles

-----------------------------------------------------------------------------
\* Two hours less than a day apart that are the same hour of the day are the same
\* (NewFile, which compares the hour of the day).
LEMMA SameHour ==
  ASSUME NEW H \in Nat \ {0}, NEW a \in Nat, NEW b \in Nat, a <= b, b - a < H, a % H = b % H
  PROVE  a = b
<1>1. /\ a \div H \in Int /\ a % H \in 0 .. H - 1 /\ a = H * (a \div H) + (a % H)
      /\ b \div H \in Int /\ b % H \in 0 .. H - 1 /\ b = H * (b \div H) + (b % H)
  OBVIOUS
<1> DEFINE d == (b \div H) - (a \div H)
<1>2. d \in Int /\ b - a = H * d
  BY <1>1
<1> HIDE DEF d
<1>3. CASE d <= -1
  <2>1. H * d <= -H
    BY <1>2, <1>3
  <2> QED
    BY <1>2, <2>1
<1>4. CASE d >= 1
  <2>1. H * d >= H
    BY <1>2, <1>4
  <2> QED
    BY <1>2, <2>1
<1>5. CASE d = 0
  BY <1>2, <1>5
<1> QED
  BY <1>2, <1>3, <1>4, <1>5

\* Unless a thread is about to name a file, the file has been named since the last
\* test of the hour, less than a day ago.
CheckedInv ==
  /\ checked <= now /\ now < checked + HoursPerDay
  /\ (\A t \in Thread : pc[t] # "name") => checked <= name /\ cur_hour_ = name % HoursPerDay

\* When no day passes without a call, a message is never written to the file of an
\* hour before its call (NewFile, NewFileWithLock, Print).
THEOREM FileOfTheCallAlways == ASSUME ~Suspends PROVE Spec => []FileOfTheCall
<1>1. Init => CheckedInv
  BY LoggerAssumption DEF Init, CheckedInv
<1>2. LogInv /\ CheckedInv /\ [Next]_vars => CheckedInv'
  <2> SUFFICES ASSUME LogInv, CheckedInv, [Next]_vars PROVE CheckedInv'
    OBVIOUS
  <2> USE DEF CheckedInv, LogInv
  <2>1. ASSUME NEW t \in Thread, Lock(t) PROVE CheckedInv'
    <3>1. \A u \in Thread : pc[u] = "idle"
      BY <2>1, AllIdle DEF Lock, Free
    <3>2. checked <= name /\ cur_hour_ = name % HoursPerDay /\ name <= now
      BY <3>1 DEF Newest
    <3>3. name \in Nat /\ now \in Nat /\ checked \in Nat
      BY <3>2 DEF TypeOK, Unset
    <3>4. checked' = now /\ now' = now /\ name' = name /\ cur_hour_' = cur_hour_
      BY <2>1 DEF Lock
    <3>5. CASE NewHour
      <4>1. pc'[t] = "name"
        BY <2>1, <3>5 DEF Lock, Goto, TypeOK
      <4> QED
        BY <3>3, <3>4, <4>1, LoggerAssumption
    <3>6. CASE ~NewHour
      <4>1. HoursPerDay \in Nat \ {0} /\ name <= now /\ now - name < HoursPerDay
        BY <3>2, <3>3, LoggerAssumption
      <4>2. name % HoursPerDay = now % HoursPerDay
        BY <3>2, <3>6 DEF NewHour
      <4>3. name = now
        BY <3>3, <4>1, <4>2, SameHour
      <4> QED
        BY <3>2, <3>3, <3>4, <4>3, LoggerAssumption
    <3> QED
      BY <3>5, <3>6
  <2>2. ASSUME NEW t \in Thread, NameFile(t) PROVE CheckedInv'
    BY <2>2 DEF NameFile, TypeOK, history
  <2>3. ASSUME NEW t \in Thread,
               OpenFile(t) \/ Filter(t) \/ PrintTime(t) \/ PrintMessage(t) \/ Flush(t)
        PROVE  CheckedInv'
    <3>1. UNCHANGED <<now, checked, name, cur_hour_>>
      BY <2>3 DEF OpenFile, Filter, PrintTime, PrintMessage, Flush, stream, history
    <3>2. pc[t] # "name" /\ \A u \in Thread : u # t => pc'[u] = pc[u]
      BY <2>3 DEF OpenFile, Filter, PrintTime, PrintMessage, Flush, Goto, TypeOK
    <3> QED
      BY <3>1, <3>2
  <2>4. CASE SetLogStorageDuration \/ CleanUp \/ UNCHANGED vars
    <3>1. UNCHANGED <<now, checked, name, cur_hour_, pc>>
      BY <2>4 DEF SetLogStorageDuration, CleanUp, BeginCleanUp, RemoveFile, EndCleanUp, vars,
                  stream, history
    <3> QED
      BY <3>1
  <2>5. CASE Tick
    BY <2>5, LoggerAssumption DEF Tick, TypeOK, stream, history
  <2> QED
    BY <2>1, <2>2, <2>3, <2>4, <2>5 DEF Next, PrintLine
<1>3. LogInv /\ CheckedInv => FileOfTheCall
  <2> SUFFICES ASSUME LogInv, CheckedInv, NEW t \in Thread, pc[t] \in {"time", "message", "flush"}
               PROVE  checked <= name /\ name <= now
    BY DEF FileOfTheCall
  <2>1. \A u \in Thread : pc[u] # "name"
    BY OthersIdle DEF LogInv
  <2> QED
    BY <2>1 DEF LogInv, CheckedInv, Newest
<1> QED
  BY LogInvariant, <1>1, <1>2, <1>3, PTL DEF Spec

-----------------------------------------------------------------------------
(* What OldFilesGo rests on. *)

\* A file that was too old when another was opened is gone, could not be removed, or is
\* on the list of a clean-up; one that has not listed the directory yet will find it,
\* and the thread that opens the file is about to start one.
NoFileForgotten ==
  \A f \in DOMAIN files \ stuck :
    TooOld(f) => \/ \E t \in Thread : pc[t] = "open"
                 \/ \E c \in cleaners : ~c.begun \/ f \in c.todo

\* A step of a clean-up takes no file from its list but the one it has tried to remove.
LEMMA CleanUpForgetsNone ==
  ASSUME LogInv, NoFileForgotten, CleanUp
  PROVE  NoFileForgotten'
<1> SUFFICES ASSUME NEW f \in DOMAIN files' \ stuck', TooOld(f)', \A t \in Thread : pc'[t] # "open"
             PROVE  \E c \in cleaners' : ~c.begun \/ f \in c.todo
  BY DEF NoFileForgotten
<1>1. PICK c \in cleaners : \/ BeginCleanUp(c)
                            \/ \E g \in c.todo : RemoveFile(c, g)
                            \/ EndCleanUp(c)
  BY DEF CleanUp
<1>2. UNCHANGED <<now, name, pc>> /\ DOMAIN files' \subseteq DOMAIN files /\ stuck \subseteq stuck'
  BY <1>1 DEF BeginCleanUp, RemoveFile, EndCleanUp, stream, history
<1>3. PICK d \in cleaners : ~d.begun \/ f \in d.todo
  BY <1>2 DEF NoFileForgotten, TooOld
<1>4. c \in [duration : {DefaultDuration, Setting}, begun : BOOLEAN, todo : SUBSET Nat]
  BY DEF LogInv, TypeOK
<1>5. CASE d # c
  BY <1>1, <1>3, <1>5 DEF BeginCleanUp, RemoveFile, EndCleanUp
<1>6. CASE d = c /\ BeginCleanUp(c)
  <2>1. f \in Nat /\ name \in Nat /\ now \in Nat /\ name <= now
    BY <1>2 DEF LogInv, TypeOK, Newest, TooOld
  <2>2. f \in Old(c.duration)
    BY <1>2, <1>4, <2>1, LoggerAssumption DEF Old, TooOld
  <2> DEFINE e == [c EXCEPT !.begun = TRUE, !.todo = Old(c.duration)]
  <2>3. e \in cleaners' /\ e.todo = Old(c.duration)
    BY <1>4, <1>6 DEF BeginCleanUp
  <2> QED
    BY <2>2, <2>3
<1>7. ASSUME d = c, NEW g \in c.todo, RemoveFile(c, g)
      PROVE  \E e \in cleaners' : ~e.begun \/ f \in e.todo
  <2>1. f # g
    BY <1>7 DEF RemoveFile
  <2> DEFINE e == [c EXCEPT !.todo = @ \ {g}]
  <2>2. e \in cleaners' /\ e.todo = c.todo \ {g} /\ f \in c.todo
    BY <1>3, <1>4, <1>7 DEF RemoveFile
  <2> QED
    BY <2>1, <2>2
<1>8. CASE d = c /\ EndCleanUp(c)
  BY <1>3, <1>8 DEF EndCleanUp
<1> QED
  BY <1>1, <1>5, <1>6, <1>7, <1>8

\* Only a new name makes more files too old, and the thread that has given it starts a
\* clean-up with its next step.
LEMMA PrintForgetsNone ==
  ASSUME LogInv, NoFileForgotten, NEW t \in Thread, PrintLine(t)
  PROVE  NoFileForgotten'
<1>1. pc \in [Thread -> {"idle", "name", "open", "filter", "time", "message", "flush"}]
  BY DEF LogInv, TypeOK
<1>2. CASE NameFile(t)
  <2>1. pc'[t] = "open"
    BY <1>1, <1>2 DEF NameFile, Goto
  <2> QED
    BY <2>1 DEF NoFileForgotten
<1>3. CASE OpenFile(t)
  <2>1. NewCleaner(log_storage_duration_) \in cleaners'
    BY <1>3 DEF OpenFile, MoreCleaners
  <2>2. ~NewCleaner(log_storage_duration_).begun
    BY DEF NewCleaner
  <2> QED
    BY <2>1, <2>2, Zenon DEF NoFileForgotten
<1>4. CASE Lock(t) \/ Filter(t) \/ PrintTime(t) \/ PrintMessage(t) \/ Flush(t)
  <2>1. UNCHANGED <<name, cleaners, stuck>> /\ DOMAIN files' = DOMAIN files
    BY <1>4 DEF Lock, Filter, PrintTime, PrintMessage, Flush, stream, history
  <2>2. \A s \in Thread : pc[s] = "open" => pc'[s] = "open"
    BY <1>1, <1>4 DEF Lock, Filter, PrintTime, PrintMessage, Flush, Goto
  <2> QED
    BY <2>1, <2>2 DEF NoFileForgotten, TooOld
<1> QED
  BY <1>2, <1>3, <1>4 DEF PrintLine

\* No old file is ever forgotten, although the clean-ups run late and beside each
\* other, each with the retention of its start: for any threads, retentions, hours and
\* failures (Open and DeleteLogHistory, Logger.cpp:56-94).
THEOREM NoFileForgottenAlways == Spec => []NoFileForgotten
<1>1. Init => NoFileForgotten
  BY DEF Init, NoFileForgotten, TooOld
<1>2. LogInv /\ NoFileForgotten /\ [Next]_vars => NoFileForgotten'
  <2> SUFFICES ASSUME LogInv, NoFileForgotten, [Next]_vars PROVE NoFileForgotten'
    OBVIOUS
  <2>1. CASE \E t \in Thread : PrintLine(t)
    BY <2>1, PrintForgetsNone
  <2>2. CASE CleanUp
    BY <2>2, CleanUpForgetsNone
  <2>3. CASE SetLogStorageDuration \/ Tick \/ UNCHANGED vars
    <3>1. UNCHANGED <<name, files, pc, cleaners, stuck>>
      BY <2>3 DEF SetLogStorageDuration, Tick, vars, stream, history
    <3> QED
      BY <3>1 DEF NoFileForgotten, TooOld
  <2> QED
    BY <2>1, <2>2, <2>3 DEF Next
<1> QED
  BY <1>1, <1>2, LogInvariant, PTL DEF Spec
=============================================================================
