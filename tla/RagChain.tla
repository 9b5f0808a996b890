------------------------------ MODULE RagChain ------------------------------
(***************************************************************************)
(* rag.RAGChain over one request: rewrite the query, recall child chunks by *)
(* vector and by keyword, fuse the rankings, rerank them, build the context *)
(* and call the model, whole (Invoke) or in pieces (Stream), while          *)
(* documents come and go.                                                   *)
(*                                                                          *)
(* A chunk is a child chunk, Parent its parent chunk, which is also the     *)
(* document. A score is a small number that Threshold divides. A text is    *)
(* the sequence of the pieces the model made it of.                         *)
(***************************************************************************)
EXTENDS Integers, SequencesExt

CONSTANTS
  Chunks,
  Parents,
  Parent,          \* the parent of each chunk
  Tokens,          \* the tokens of each parent
  Scores,          \* what a retriever or the reranker may give
  Threshold,       \* ScoreThreshold
  Budget,          \* MaxContextTokens
  TopK,
  BM25TopK,
  RRFK,
  MaxQueries,      \* QueryRewriteMaxQueries
  CandidateLimit,  \* RerankCandidateLimit
  RerankTopN,
  PipeCapacity,    \* schema.Pipe of the stream
  MaxPieces        \* bound: pieces of a streamed answer

ASSUME ChainAssumption ==
  /\ IsFiniteSet(Chunks) /\ IsFiniteSet(Parents)
  /\ Parent \in [Chunks -> Parents]
  /\ Tokens \in [Parents -> Nat \ {0}]
  /\ Scores \subseteq Nat /\ Threshold \in Nat
  /\ Budget \in Nat \ {0} /\ TopK \in Nat \ {0} /\ BM25TopK \in Nat \ {0}
  /\ RRFK \in Nat \ {0} /\ MaxQueries \in Nat \ {0}
  /\ CandidateLimit \in Nat \ {0} /\ RerankTopN \in 1..CandidateLimit
  /\ PipeCapacity \in Nat \ {0} /\ MaxPieces \in Nat

VARIABLES
  docs,     \* documents whose status is completed
  state,    \* chainState, and the node it stands before
  writer,   \* the goroutine of streamChatModelNode
  pipe      \* what it has sent and Stream has not yet received

chainVars == <<state, writer, pipe>>

Nodes == {"idle", "rewrite", "vector", "keyword", "fuse", "rerank", "context",
          "prompt", "model", "stream", "done", "error"}

\* What the configuration or the planner may switch on in a search.
SearchFeatures == {"rewrite", "hybrid", "rerank"}

\* The model's pieces: FallbackAnswer itself, blanks, any other text.
Pieces == {"text", "fallback", "blank"}

Fallback == <<"fallback">>

Hit == [chunk : Chunks, score : Nat]

Unranked == [rrf |-> 0, vector |-> 0, bm25 |-> 0]

NoState == [node |-> "idle", streamed |-> FALSE, features |-> {}, queries |-> 0,
            merged |-> [c \in Chunks |-> Unranked], results |-> << >>,
            used |-> << >>, tokens |-> 0, rejected |-> FALSE, answer |-> << >>]

NoWriter == [pc |-> "off", said |-> << >>]

ChainInit ==
  /\ docs \in SUBSET Parents
  /\ state = NoState
  /\ writer = NoWriter
  /\ pipe = << >>

\* A document finishes indexing, is deleted or is indexed anew.
DocumentChanges ==
  \E p \in Parents : docs' = IF p \in docs THEN docs \ {p} ELSE docs \cup {p}

-----------------------------------------------------------------------------
(* Query rewrite and recall *)

\* Invoke and Stream, with the features of the request.
StartChain(features, streamed) ==
  state' = [NoState EXCEPT !.node = "rewrite", !.features = features,
                           !.streamed = streamed]

\* A rewriter that fails or says nothing leaves the question itself.
Rewrite ==
  /\ state.node = "rewrite"
  /\ \E n \in 1..(IF "rewrite" \in state.features THEN MaxQueries ELSE 1) :
       state' = [state EXCEPT !.node = "vector", !.queries = n]
  /\ UNCHANGED <<writer, pipe>>

\* Rankings a store may return: distinct chunks, best score first.
Rankings ==
  [k \in {TopK, BM25TopK} |->
    {s \in BoundedSeq([chunk : Chunks, score : Scores], k) :
       \A i, j \in DOMAIN s : i < j => /\ s[i].chunk # s[j].chunk
                                       /\ s[i].score >= s[j].score}]

\* loadRetrievedChunks: what is left of a ranking in completed documents.
Loaded(hits) ==
  LET Load(kept, h) == IF Parent[h.chunk] \in docs THEN Append(kept, h) ELSE kept
  IN FoldLeft(Load, << >>, hits)

\* 1 / (k + rank), times the product of all denominators.
Contribution ==
  LET Ranks == 1..(IF TopK > BM25TopK THEN TopK ELSE BM25TopK)
  IN [rank \in Ranks |-> ProductSet({RRFK + i : i \in Ranks \ {rank}})]

\* addFusionResult for every hit of a ranking.
Fused(merged, hits, channel) ==
  [c \in Chunks |->
    IF \E i \in DOMAIN hits : hits[i].chunk = c
    THEN LET i == CHOOSE k \in DOMAIN hits : hits[k].chunk = c
         IN [merged[c] EXCEPT !.rrf = @ + Contribution[i],
                              ![channel] = IF hits[i].score > @ THEN hits[i].score ELSE @]
    ELSE merged[c]]

RecallVector ==
  /\ state.node = "vector"
  /\ \E ranking \in Rankings[TopK] :
       state' = [state EXCEPT
         !.queries = @ - 1,
         !.merged = Fused(@, Loaded(ranking), "vector"),
         !.node = IF state.queries > 1 THEN "vector"
                  ELSE IF "hybrid" \in state.features THEN "keyword" ELSE "fuse"]
  /\ UNCHANGED <<writer, pipe>>

\* A keyword recall that fails only leaves a trace.
RecallKeyword ==
  /\ state.node = "keyword"
  /\ \E ranking \in Rankings[BM25TopK] :
       state' = [state EXCEPT !.merged = Fused(@, Loaded(ranking), "bm25"),
                              !.node = "fuse"]
  /\ UNCHANGED <<writer, pipe>>

\* A contribution by rank alone is below every score.
Score(m) == IF m.vector > 0 THEN m.vector ELSE m.bm25

\* Results in the order of their RRF sums; equal sums in the order of a Go map.
Fuse ==
  /\ state.node = "fuse"
  /\ LET merged == state.merged
         Found == {c \in Chunks : merged[c].rrf > 0}
         Ordered(s) == \A i, j \in DOMAIN s : i < j => merged[s[i]].rrf >= merged[s[j]].rrf
     IN \E s \in {t \in SetToSeqs(Found) : Ordered(t)} :
          state' = [state EXCEPT
            !.node = "rerank",
            !.merged = [c \in Chunks |-> Unranked],
            !.results = [i \in DOMAIN s |-> [chunk |-> s[i], score |-> Score(merged[s[i]])]]]
  /\ UNCHANGED <<writer, pipe>>

-----------------------------------------------------------------------------
(* Rerank, context and prompt *)

Smaller(a, b) == IF a < b THEN a ELSE b

\* sort.SliceStable by score, the best first.
StableByScore(s) ==
  LET Before(j, i) == s[j].score > s[i].score \/ (s[j].score = s[i].score /\ j < i)
      Rank(i) == 1 + Cardinality({j \in DOMAIN s : Before(j, i)})
  IN [r \in DOMAIN s |-> s[CHOOSE i \in DOMAIN s : Rank(i) = r]]

\* An index of a candidate that no earlier item names.
Usable(items, i, n) ==
  items[i].index <= n /\ \A j \in 1..(i - 1) : items[j].index # items[i].index

\* The usable items of an answer, in its order.
Valid(items, n) ==
  LET Keep(kept, i) == IF Usable(items, i, n) THEN Append(kept, items[i]) ELSE kept
  IN FoldLeftDomain(Keep, << >>, items)

\* applyRerankResult: the items it keeps of a reranker's, the best first.
Kept(items, n) ==
  LET sorted == StableByScore(Valid(items, n))
  IN SubSeq(sorted, 1, Smaller(Smaller(RerankTopN, n), Len(sorted)))

\* What is kept of any answer about n candidates, with indexes valid or not.
RerankOrders ==
  [n \in 1..CandidateLimit |->
    {Kept(items, n) :
       items \in BoundedSeq([index : 1..(n + 1), score : Scores], Smaller(RerankTopN, n))
                  \ {<< >>}}]

\* The reranker fails, answers with no item at all, or answers.
Rerank ==
  /\ state.node = "rerank"
  /\ LET n == Smaller(CandidateLimit, Len(state.results))
     IN IF "rerank" \in state.features /\ n > 0
        THEN \/ \E k \in {n, Len(state.results)} :
                  state' = [state EXCEPT !.node = "context",
                                         !.results = SubSeq(@, 1, k)]
             \/ \E order \in RerankOrders[n] :
                  state' = [state EXCEPT
                    !.node = "context",
                    !.results = [k \in DOMAIN order |->
                                   [chunk |-> @[order[k].index].chunk,
                                    score |-> order[k].score]]]
        ELSE state' = [state EXCEPT !.node = "context"]
  /\ UNCHANGED <<writer, pipe>>

\* Mutant of Fits: the tokens of the chunk itself are not counted.
FitsAny(c, tokens) == tokens <= Budget

\* The first chunk is taken whatever its length.
Fits(c, tokens) == tokens = 0 \/ tokens + Tokens[Parent[c]] <= Budget

New(c, used) == \A i \in DOMAIN used : Parent[used[i]] # Parent[c]

\* One turn of the loop of contextBuilderNode.
Take(context, hit) ==
  IF /\ hit.score >= Threshold
     /\ Fits(hit.chunk, context.tokens)
     /\ New(hit.chunk, context.used)
  THEN [used |-> Append(context.used, hit.chunk),
        tokens |-> context.tokens + Tokens[Parent[hit.chunk]]]
  ELSE context

BuildContext ==
  /\ state.node = "context"
  /\ LET context == FoldLeft(Take, [used |-> << >>, tokens |-> 0], state.results)
     IN state' = [state EXCEPT !.node = "prompt", !.used = context.used,
                               !.tokens = context.tokens,
                               !.rejected = context.used = << >>]
  /\ UNCHANGED <<writer, pipe>>

\* Without a context the model is not asked, in strict mode or not.
RenderPrompt ==
  /\ state.node = "prompt"
  /\ state' = [state EXCEPT !.node = IF state.streamed THEN "stream" ELSE "model",
                            !.results = << >>,
                            !.answer = IF state.used = << >> THEN Fallback ELSE << >>]
  /\ UNCHANGED <<writer, pipe>>

-----------------------------------------------------------------------------
(* The model's answer, whole or in pieces *)

IsBlank(pieces) == \A i \in DOMAIN pieces : pieces[i] = "blank"

\* strings.TrimSpace of the pieces put together.
Trimmed(pieces) ==
  LET solid == {i \in DOMAIN pieces : pieces[i] # "blank"}
  IN IF solid = {} THEN << >> ELSE SubSeq(pieces, Min(solid), Max(solid))

Answered(pieces) == IF IsBlank(pieces) THEN Fallback ELSE Trimmed(pieces)

CallModel ==
  /\ state.node = "model"
  /\ \E piece \in Pieces :
       state' = [state EXCEPT !.node = "done",
                              !.answer = IF @ # << >> THEN @ ELSE Answered(<<piece>>)]
  /\ UNCHANGED <<writer, pipe>>

\* A statement, the vector store, the embedder, the template or the model fails.
ChainFails ==
  /\ \/ state.node \in {"vector", "prompt"}
     \/ state.node = "model" /\ state.answer = << >>
  /\ state' = [state EXCEPT !.node = "error"]
  /\ UNCHANGED <<writer, pipe>>

\* streamChatModelNode returns the reader; its goroutine writes.
OpenStream ==
  /\ state.node = "stream"
  /\ state' = [state EXCEPT !.node = "done"]
  /\ writer' = [writer EXCEPT !.pc = IF state.answer # << >> THEN "refuse" ELSE "model"]
  /\ UNCHANGED pipe

\* Mutant of CanSend: one more than the pipe holds.
CanSendBeyond == Len(pipe) <= PipeCapacity

CanSend == Len(pipe) < PipeCapacity

Send(item) == CanSend /\ pipe' = Append(pipe, item)

\* The chain has refused: the answer, then the result.
WriteRefusal ==
  /\ writer.pc = "refuse"
  /\ Send(state.answer[1])
  /\ writer' = [writer EXCEPT !.pc = "result"]
  /\ UNCHANGED state

WritePiece ==
  /\ writer.pc = "model" /\ Len(writer.said) < MaxPieces
  /\ \E piece \in Pieces :
       Send(piece) /\ writer' = [writer EXCEPT !.said = Append(@, piece)]
  /\ UNCHANGED state

ModelEnds ==
  /\ writer.pc = "model"
  /\ state' = [state EXCEPT !.answer = Answered(writer.said)]
  /\ writer' = [writer EXCEPT !.pc = "result", !.said = << >>]
  /\ UNCHANGED pipe

\* The call or a Recv of the model's stream fails.
ModelBreaks ==
  /\ writer.pc = "model"
  /\ Send("error")
  /\ writer' = [NoWriter EXCEPT !.pc = "closed"]
  /\ UNCHANGED state

WriteResult ==
  /\ writer.pc = "result"
  /\ Send("prepared")
  /\ writer' = [writer EXCEPT !.pc = "closed"]
  /\ UNCHANGED state

ChainStep ==
  \/ Rewrite \/ RecallVector \/ RecallKeyword \/ Fuse \/ Rerank \/ BuildContext
  \/ RenderPrompt \/ CallModel \/ ChainFails \/ OpenStream

WriterStep == WriteRefusal \/ WritePiece \/ ModelEnds \/ ModelBreaks \/ WriteResult

-----------------------------------------------------------------------------
(* Properties of the chain *)

ChainTypeOK ==
  /\ docs \subseteq Parents
  /\ state.node \in Nodes /\ state.streamed \in BOOLEAN
  /\ state.features \subseteq SearchFeatures
  /\ state.queries \in 0..MaxQueries
  /\ state.merged \in [Chunks -> [rrf : Nat, vector : Nat, bm25 : Nat]]
  /\ state.results \in Seq(Hit)
  /\ state.used \in Seq(Chunks) /\ state.tokens \in Nat
  /\ state.rejected \in BOOLEAN /\ state.answer \in Seq(Pieces)
  /\ writer \in [pc : {"off", "refuse", "model", "result", "closed"}, said : Seq(Pieces)]
  /\ pipe \in Seq(Pieces \cup {"prepared", "error"}) /\ Len(pipe) <= PipeCapacity

ParentsOf(chunks) == {Parent[chunks[i]] : i \in DOMAIN chunks}

\* What the model is shown (contextBuilderNode): chunks of different parents, each
\* of a result that reached the threshold; together within MaxContextTokens unless
\* one alone exceeds it; and no good result of another parent that would still
\* have fitted is left out.
ContextFits ==
  state.node = "prompt" =>
    LET used == state.used
        good == {state.results[i].chunk :
                   i \in {j \in DOMAIN state.results : state.results[j].score >= Threshold}}
    IN /\ \A i \in DOMAIN used : used[i] \in good
       /\ Cardinality(ParentsOf(used)) = Len(used)
       /\ state.tokens = SumFunctionOnSet(Tokens, ParentsOf(used))
       /\ state.tokens <= Budget \/ Len(used) = 1
       /\ \A c \in good : Parent[c] \in ParentsOf(used)
                            \/ state.tokens + Tokens[Parent[c]] > Budget
=============================================================================
