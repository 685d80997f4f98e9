---------------------------- MODULE WorkerMeter ----------------------------
(***************************************************************************)
(* How the Cloudflare Worker meters a streamed answer on its way through,  *)
(* go-gateway/src/cloudflare.js: the TransformStream that reads the usage  *)
(* and the text out of chunks cut anywhere, and logUsage.                  *)
(*                                                                         *)
(* A line has a head, a tail and a line feed; it can be parsed when the    *)
(* parser gets its head and its tail together.  A number is a length.      *)
(***************************************************************************)
EXTENDS Integers, FiniteSets, Sequences

CONSTANTS Stories,    \* the streams a provider may send
          Prompt      \* estimateTokensFromMessages of the request

VARIABLES story,      \* the lines: [text, usage], usage 0 without one
          buf,        \* symbols read and not parsed
          arrivedTo,  \* symbols read
          tokens,     \* promptTokens and completionTokens, 0 before any
          letters,    \* text.length
          garbled,    \* history: characters cut by a chunk
          hasKey,     \* apiKeyId
          entry,      \* the usage_logs row: open, none, written
          ledger      \* its total_tokens

vars == <<story, buf, arrivedTo, tokens, letters, garbled, hasKey, entry,
          ledger>>

\* Assumed where this module is instantiated, in DashboardPages.
MeterAssumption ==
  /\ Prompt \in Nat
  /\ Stories \subseteq Seq([text : Nat, usage : Nat]) \ {<<>>}

\* Three to a line; the last may come without its line feed.
Symbols == [k \in 1..(3 * Len(story) - 1) |->
              <<(k + 2) \div 3, CASE k % 3 = 1 -> "head" [] k % 3 = 2 -> "tail"
                                   [] OTHER -> "feed">>]

TypeOK ==
  /\ story \in Stories
  /\ arrivedTo \in 0..Len(Symbols)
  /\ {tokens, garbled} \subseteq Nat /\ letters \in Int /\ hasKey \in BOOLEAN
  /\ entry \in {"open", "none", "written"} /\ ledger \in Nat

Init ==
  /\ story \in Stories /\ hasKey \in BOOLEAN
  /\ buf = <<>> /\ arrivedTo = 0 /\ tokens = 0 /\ letters = 0
  /\ garbled = 0 /\ entry = "open" /\ ledger = 0

\* The lines of s that parse.
Parsed(s) == {i \in DOMAIN story : \E j, k \in DOMAIN s :
                s[j] = <<i, "head">> /\ s[k] = <<i, "tail">>}

Latest(numbers) == CHOOSE i \in numbers : \A j \in numbers : j <= i

\* The last usage object of some lines, 0 for null.
UsageOf(lines) == LET found == {i \in lines : story[i].usage # 0}
                  IN IF found = {} THEN 0 ELSE story[Latest(found)].usage

\* Their characters.
Characters(lines) == UNION {{i} \X (1..story[i].text) : i \in lines}

\* parseUsageFromSSE, textFromSSE.
ParseUsage(s) == UsageOf(Parsed(s))
TextFrom(s) == Cardinality(Characters(Parsed(s)))

\* Mutant of Read: each chunk is parsed by itself.
ReadChunk(read, chunk) == chunk

\* What a chunk is appended to before the lines are looked for.
Read(read, chunk) == read \o chunk

\* The complete lines of a buffer: up to its last line feed.
Cut(s) == LET feeds == {i \in DOMAIN s : s[i][2] = "feed"}
          IN IF feeds = {} THEN 0 ELSE Latest(feeds)

Counts(s, extra) ==
  /\ tokens' = IF ParseUsage(s) # 0 THEN ParseUsage(s) ELSE tokens
  /\ letters' = letters + TextFrom(s) + extra

\* transform.  A decoder of its own for every chunk: a character cut in two
\* comes out as something else: one unit longer or shorter, or as long.
Chunk(n, cuts, off) ==
  LET s == Read(buf, SubSeq(Symbols, arrivedTo + 1, arrivedTo + n))
  IN /\ entry = "open" /\ arrivedTo + n <= Len(Symbols)
     /\ arrivedTo' = arrivedTo + n
     /\ IF cuts
        THEN /\ arrivedTo > 0 /\ Symbols[arrivedTo][2] = "head"
             /\ story[Symbols[arrivedTo][1]].text > 1
             /\ garbled' = garbled + 1
        ELSE off = 0 /\ UNCHANGED garbled
     /\ buf' = SubSeq(s, Cut(s) + 1, Len(s))
     /\ Counts(SubSeq(s, 1, Cut(s)), off)
     /\ UNCHANGED <<story, hasKey, entry, ledger>>

\* logUsage: pt from the provider or estimated; ct likewise, chars / 4.
Total(n, chars) == (IF n # 0 THEN n ELSE Prompt)
                     + (IF n # 0 \/ chars = 0 THEN 0 ELSE (chars + 3) \div 4)

\* flush parses what is left, then logs; without a key there is no row.
Flush ==
  /\ entry = "open" /\ arrivedTo = Len(Symbols)
  /\ Counts(buf, 0) /\ buf' = <<>>
  /\ entry' = IF hasKey THEN "written" ELSE "none"
  /\ ledger' = IF hasKey THEN Total(tokens', letters') ELSE 0
  /\ UNCHANGED <<story, arrivedTo, garbled, hasKey>>

\* The client leaves: no flush, no row.
Cancel ==
  /\ entry = "open" /\ entry' = "none"
  /\ UNCHANGED <<story, buf, arrivedTo, tokens, letters, garbled, hasKey,
                 ledger>>

Next ==
  \/ Flush \/ Cancel
  \/ \E n \in 1..Len(Symbols), cuts \in BOOLEAN, off \in {-1, 0, 1} :
       Chunk(n, cuts, off)

Spec == Init /\ [][Next]_vars
-----------------------------------------------------------------------------
(* Wherever the stream was cut, the row has the last usage the provider     *)
(* sent, and without one an estimate from all of the text, off by no more   *)
(* than the characters that chunks cut (lines 466-498).                     *)
MeterSeesAll ==
  entry = "written" =>
    LET sent == UsageOf(DOMAIN story)
        all  == Cardinality(Characters(DOMAIN story))
    IN IF sent # 0 THEN ledger = sent
       ELSE ledger \in Total(0, all - garbled)..Total(0, all + garbled)
=============================================================================
