# TLA+ models of the frames client and backends

This directory holds TLA+ models of the Go code under `src/`. It also has TLC configurations that check them on small instances, and TLAPS proofs, for all values of the constants, of safety properties and refinements of the write path, the gRPC read handler, the kv iterator, the client calls and the backends. `PROJECT.json` is the machine-readable index:
- components;
- runs, with their properties;
- mutants;
- the definition-to-source map;
- findings;
- hazards;
- theorems.

## 1. The system

| Part | Source | What it does |
|---|---|---|
| Streaming write path | `src/client.go` 112-147, 234-279 (`src/http/client.go` has the same code) | `Client.Write` creates an `io.Pipe`, makes its read end the HTTP request body and starts a goroutine running `http.DefaultClient.Do`. The goroutine sends the result on a channel of capacity 1. `Add` encodes a frame into the pipe and blocks until the transport has read it. `WaitForComplete` closes the write end, then selects between the channel and a timer. |
| Client calls | `src/client.go` 46-109, 150-224 | `NewClient` (URL from the argument or `$V3IO_URL`). `Read` posts the query and wraps a 200 response in a `streamFrameIterator` that decodes frames until EOF. `jsonCall` serves `Create` and `Delete`. |
| kv frame iterator | `src/backends/kv/reader.go`, `src/backends/utils/utils.go` | `Iterator.Next` draws up to `MessageLimit` rows from the v3io cursor. It skips the table's schema row. It creates a column the first time a field appears, backfilled with `NewColumn(field, rowNum)`. It appends `AppendNil` for absent fields, moves `__name` into the index, and builds the frame. |
| gRPC read handler | `src/grpc/server.go` 70-94, `src/grpc/marshal.go` | A goroutine runs `api.Read`, which sends the backend's frames on an unbuffered channel and stores the iterator's error in `apiError`. The handler converts each frame (`frameMessage`) and sends it on the stream, returning at the first error, or `apiError` at the end. |
| Backends | `src/backends/{kv,tsdb,stream}/backend.go` | `NewBackend` opens the v3io container (kv, stream) or only keeps the configuration (tsdb). `Create` checks and defaults the attributes, then makes the storage calls; kv `Create` always fails. `Delete`: kv runs `DeleteTable` over the filter's items; tsdb parses start and end, opens an adapter at the table's path (the session's path for an empty table) and calls `DeleteDB`; stream `Delete` is not implemented. |
| Grafana adapter | `src/http/grafana.go` | `SimpleJSONRequestFactory` parses a query or search body into one request (`parseQueryLine`, `setField`), `GetReadRequest` builds the backend read, and `CreateResponse` sends every frame of the read to the formatter of the backend: `formatKV` builds tables, `formatTSDB` collects datapoints into one series per metric and label set. |
| Not modelled | `grpc.NewServer`, `utils.AppendValue`/`ColAt` | `NewServer` validates the configuration and builds the API. `AppendValue` and `ColAt` are not called by any modelled path. The frames, column and codec library is not under `src/`; the parts the kv iterator calls (`NewFrame`'s length check and the typed `AppendColumn`) are modelled from the spec and marked `spec_modelled`. |

The parts interact along two paths:
- **Write path:** caller → appender → pipe → net/http → server.
- **Read path:**
  - backend iterator (kv) → `api.Read` → gRPC handler → client; or
  - HTTP response → `streamFrameIterator` → caller.

The HTTP server handlers and `api.Read` are not in `src/`. The modules therefore meet at the iterator contract: `Next` returns false, then `Err()` gives the error. `GrpcRead` abstracts the backend iterator it drives to a sequence of frames that may end in an error; `KVIterator` is one such iterator.

## 2. Modules

| Module | Models | State | Actions |
|---|---|---|---|
| `StreamWrite` | write path | The caller's control point and result. Frames handed to the pipe (`sent`) and accepted (`added`). The frame offered in the pipe. The writer closed. The transport's control point, the body it read and the outcome of `Do`. The channel, as a sequence of capacity `ChanCap`. Whether the response is closed. | `Write`, `Add` (the pipe write blocks), `AddDone` (the write returns after the read), `WaitForComplete`, `WaitRecv`, `WaitTimeout`. Environment: `TransportRead`, `TransportRespond`, `TransportSend`. |
| `WriteCompletion` | the design's write path (spec §4.5), abstract | The caller (`init`, `open`, `waiting`, `timedout`, `done`) and its last result. Frames acknowledged and frames consumed. The conduit closed. The network call, its status and the single completion slot. | `Start`, `Hand` (the conduit passes a frame), `Ack`, `Refuse` (encode on a closed conduit), `Close`, `Respond`, `Signal`, `Receive`, `Timeout`. |
| `StreamWriteProofs` | proofs about `StreamWrite` | | |
| `KVIterator` | kv `Read` and `Iterator.Next` with the utils helpers | The source rows and whether the cursor ends in an error. The cursor position. Next's locals (`rowNum`, `byName`). `ki.err`. The frames taken by the consumer. History: the source rows behind each frame. | One call of Next is three actions: `NextStart`; one `NextRow` per loop iteration (schema row, failing row, data row); `NextEnd`, the code after the loop (cursor error, empty page, `NewFrame` error, frame). The consumer may call Next again after false, as the iterator allows. |
| `FrameIterator` | the design's frame iterator (spec §4.3), abstract | The source rows; the pages yielded, each the sequence of its rows; the state (`ready`, `exhausted`, `failed`). `IsMarker` is a constant operator, instantiated with the schema-row test. | `Yield` (the next page: the non-marker rows of the next `Limit` positions, only while pages do not cover the source), `Exhaust` (false with nil error once they do), `Fail`, `AfterFailure` (the error stays; pages are not promised). |
| `GrpcRead` | `Server.Read`, `marshal.go` | Backend frames (records of data columns, index columns and labels; a column is a slice, a label or another `Column`). The goroutine's control point, `apiError`, whether `ch` is closed. The handler's control point, the protobuf frames sent, the result. `frameMessage`, `columnMessage`, `pbSliceCol`, `pbLabelCol` and `TimestampProto` are operators that build the message, with failure predicates for each error return. | `ProducerNext`, `ProducerReturn` (stores `apiError`, then the deferred close), `Handoff` (unbuffered channel), `SendFrame` (marshal, then `Send`, either may fail), `RangeEnd`. |
| `ReadStream` | the design's read path (spec §3, read path), abstract | The backend's frames and whether its iteration ends in an error; the messages sent, in order; the result. `Message` and `Unconvertible` are constant operators, instantiated with `frameMessage` and `frameMessageFails`. | `Emit` (the next frame's message is sent), `Fail` (a marshal or send error at the next frame), `Finish` (every frame sent: nil or the iterator's error). |
| `GrpcReadProofs`, `KVIteratorProofs` | proofs about `GrpcRead` and `KVIterator` | | |
| `ClientCalls` | `NewClient`, `Read`, `streamFrameIterator`, `jsonCall` | The client. The current response: frame count and how it ends (`eof`, `truncated`, `corrupt`). Frames decoded. The body closed. `it.err`. Bodies of `jsonCall` left open. | `NewClient`, `Read`, `NextFrame`, `EndIteration` (the caller leaves its loop), `JsonCall`. |
| `Backends` | the three `backend.go` | What each `NewBackend` did; the storage: the items of each kv table, the tsdb table and the stream at each path; the last request and its result. A table name is its base and whether it ends in "/". | `KVNewBackend`, `StreamNewBackend`, `TsdbNewBackend`, `KVCreate`, `KVDelete`, `StreamCreate`, `StreamDelete`, `TsdbCreate`, `TsdbDelete`; the container and storage calls fail nondeterministically, and a failed `DeleteTable` may have deleted any part of its items. |
| `Grafana` | `grafana.go` | The parsed request and the read request; the frames of the read and how many were formatted (`k`); the kv tables, the tsdb series (a function from target to datapoints) and the search values; the control point and result. | `Parse` (method and JSON errors, or the merged request), `CreateResponse` (unknown backend, tsdb search, or the frame loop), one `FormatKV`, `FormatTSDB` or `SearchFormatKV` per frame, `RangeEnd`. |

Each `MC*.tla` module instantiates one of these with small constants.

Data is abstracted to what the properties distinguish:
- frames are positions;
- a row is a function from field names to values, each value a record of its Go type and an opaque payload;
- the JSON, msgpack and protobuf encodings, logging and headers are left out.

Every control path of the modelled functions is kept, error returns included, with two exceptions that no property depends on: the panics of the type assertions `target["type"].(string)` and `target["target"].(string)` in Grafana's request parsing (grafana.go:228-229), and the `NewLogger` error of `NewClient` (client.go:48-52). Calls into packages outside this repository (`v3ioutils.DeleteTable`, `CreateStream`, `CreateTSDB`, `DeleteDB`, the v3io cursor) are modelled by their documented effect, with every failure they may return.

## 3. Runs

| Run | Checks | Shows |
|---|---|---|
| `stream_write` (pass, 183 states) | `TypeOK`, `AddedIsConsumed`, `SuccessImpliesDelivered`, `ChannelSendCompletes`, `WriteCompletionSpec` | Backpressure; success only after the server read exactly the accepted frames, through early errors, timeouts and retried waits; the goroutine's send always completes. The write path implements `WriteCompletion`, including its fairness: the call ends and fills the slot, and every wait ends. |
| `stream_write_nil_response` (violation) | `NoNilResponseDeref` | A network error makes `WaitForComplete` dereference a nil response (client.go:267). |
| `stream_write_add_blocks` (violation) | `AddReturns` | An early answer leaves `Add` blocked forever in the pipe write (client.go:248). |
| `kv_pages` (pass, 230477 states) | `TypeOK`, `SchemaFreePagesMatch`, `CleanEndPagination`, `NoSpuriousError`, `FrameIteratorSpec` | Sparse rows, fields first seen mid-page, conflicting types, cursor errors and the schema row. Over a source without a schema row every frame is the exact table of its rows. A clean end covers the non-schema rows in `Limit`-row pages. Errors come only from bad data, the cursor or a schema row, and `NewFrame`'s error branch is reached. Next implements `FrameIterator` under the instance `FI` (pages are `pageRows`; Failed once `ki.err` is set, Exhausted after a clean false). |
| `kv_schema_phantom_row` (violation) | `PagesMatchSource` | A schema row counted in `rowNum` adds a row of zero values (reader.go:92). |
| `kv_time_missing` (violation) | `PagesMatchSource` | Timestamp backfill (`time.Time{}`) differs from `AppendNil` (`time.Unix(0,0)`). |
| `grpc_read` (pass, 2400 states) | `TypeOK`, `ReadResultHonest`, `StreamRoundTrip`, `ReadReturns`, `ReadStreamSpec` | The handler returns, and returns nil only after the message of every frame was sent and the iterator ended cleanly. The j-th message decodes (by the spec's RPC mapping) to the j-th frame's columns, indices, variants, DTypes and values, timestamps to the nanosecond; labels excepted, for the message has no field for them. The frames of the instance are shaped as the frames package builds them (`MCFramesWellFormed`, an assumption TLC evaluates). The handler with its goroutine implements `ReadStream` under the instance `RS`, fairness included. |
| `grpc_read_producer_leak` (violation) | `ProducerTerminates` | An early return leaves the producer blocked on the unbuffered channel forever (server.go:84). |
| `client_calls` (pass, 264 states) | `TypeOK`, `CleanEndComplete` | A clean end of the iterator means the whole response was decoded. |
| `client_json_call_leak` (violation) | `NoLeakedResponse` | `jsonCall` never closes the body (client.go:174). |
| `backends` (pass, 12942 states) | `TypeOK`, `TsdbCreateReported` | No stream without a shard. A tsdb `Create` step returns nil exactly when it stored the table at the request's path with its rate, and an error leaves every tsdb table alone. kv `Delete` is modelled (a failed `DeleteTable` may leave any part of the selected items) but not checked: `src/` only forwards to `v3ioutils.DeleteTable`, whose semantics are assumed, so a property of it would restate the assumption. |
| `grafana` (pass, 4003 states) | `TypeOK`, `TSDBPointsPreserved` | Every kv table row is non-empty and no longer than its columns; every valid datapoint of every tsdb frame lands, once, in the series of its metric and label set, whichever order Go ranges the label map in, and no NaN reaches a series. |

Some hazards found while modelling are not among the runs. They are recorded in `PROJECT.json` under "hazards", with a note:
- the response left open after a timeout (client.go:277);
- a schema row in mid-page making `NewFrame` fail (reader.go:92);
- Next returning true after a failed call (reader.go:100);
- the body left open after a decode error (client.go:222);
- a Next after EOF setting `Err` (client.go:214);
- the swallowed `CreateStream` error (stream/backend.go:91);
- the retention bound tested on `shards` (stream/backend.go:80);
- a tsdb `Delete` with no table deleting the session's table (tsdb/backend.go:73);
- a series split in two by the label map's iteration order (grafana.go:315);
- a kv row shifted under the wrong headers when a NaN cell is dropped (grafana.go:144);
- the fields of an earlier target surviving into a later one (grafana.go:227);
- a frame's labels left out of its protobuf message (marshal.go:64);
- an empty slice column's DType lost in its message (marshal.go:140).

The models reach each of these states; the plan below adds the runs that assert them.

Every property of a passing run has a mutant in `PROJECT.json`: a plausible bug in a mapped definition, written as an operator just before it, which TLC must catch. Examples:
- the status check dropped;
- `Add` returning before the read;
- an unbuffered result channel;
- the limit tested after drawing the row;
- no backfill;
- the index column kept among the data columns;
- the handler returning nil at the end;
- a goroutine that never closes `ch`;
- a decode error taken for EOF;
- a dropped `CreateTSDB` error.

### Bounds

- **`StreamWrite`:** 2 frames and 2 waits. Enough for an `Add` before and after each kind of answer, a timeout followed by a retried wait, and a late answer after a timeout.
- **`KVIterator`:** up to 3 rows, pages of 2, every combination of:
  - `x`: absent, int or string (a type conflict);
  - `y`: absent, int or an unsupported type;
  - plus the schema row.

  `kv_pages` uses pages of 3 over up to 4 rows. That covers a full page followed by a partial page, fields first seen in the second row, and conflicts within and across pages. It is also the least that fits a schema row between two data rows of one page, which `NewFrame`'s ragged-column error needs. The time-backfill run uses 3 rows in pages of 2.
- **`GrpcRead`:** up to 3 frames, each one of 4: every column variant with a sub-second time index and a negative second; an empty column; a timestamp past the Timestamp range; an out-of-range time as the value of a size-0 label column, which is never converted. The Timestamp range is scaled to seconds -1..1: only which side of the bound a time falls on matters. Each send can fail.
- **`ClientCalls`:** 3 calls, responses of up to 2 frames.
- **`Backends`:** int attributes -1..1, the boundary of every check. Table bases `""` and `"a"`, each with and without a trailing "/". The session's path is `"a"`, so an empty table's adapter reaches a real table. Two kv items, with a filter selecting one and one selecting both. Two calls, after each backend's `NewBackend`: enough for a create then a delete of one table.
- **`Grafana`:** reads of up to 2 of 4 frames and queries of up to 2 target lines of 5. The frames hold a NaN in a data column, a label that is also a column, two labels (so that both map orders occur), an empty frame, a pre-1970 timestamp (truncating division), and a kv frame with no index. The lines select every metric (`*`), named fields, a backend, a table, an unknown key and an unsupported backend.

### Fairness

Fairness is assumed only where the Go runtime or the network provides it:
- **`StreamWrite`:**
  - the transport goroutine is weakly fair;
  - a pipe write returns once its data is read (`AddDone`);
  - a select with a timer eventually takes one of its cases.

  Calling `Add` or `WaitForComplete` is the caller's choice, so it is not fair. `WriteCompletion` asks for weak fairness of `Respond`, `Signal` and `Receive \/ Timeout`, and nothing of `Hand` or `Ack`: the design does not promise that a blocked encode returns, which is why `AddReturns` can fail while `WriteCompletionSpec` holds. `AddReturns` fails under exactly this fairness: no transport step is enabled that could read the pipe.
- **`GrpcRead`:** both goroutines are weakly fair. `ReadStream` asks only that the read keeps taking steps until it returns (weak fairness of its `Next`), which is `ReadReturns` seen from the client.

`KVIterator`, `ClientCalls`, `Backends` and `Grafana` are sequential, and their runs check only safety.

`CHECK_DEADLOCK FALSE` is used where the system really stops:
- the write call and `Server.Read` end;
- the client's bounded calls run out;
- the create calls run out;
- the Grafana handler returns its response.

## 4. Proofs

`StreamWriteProofs` proves three invariance theorems with TLAPS, for every `MaxFrames \in Nat` and `MaxWaits \in Nat \ {0}` (`BoundsAssumption`):
- `TypeCorrect`: `Spec => []TypeOK`;
- `Backpressure`: `Spec => []AddedIsConsumed`;
- `SuccessDelivers`: `Spec => []SuccessImpliesDelivered`.

None of these invariants is inductive alone. The inductive invariant `IInv` conjoins `TypeOK` with seven invariants:
- `BodyInv`: outside a blocked `Add`, the pipe is empty and the body equals `added`; inside one, the offered frame is either still in the pipe or already read.
- `ClosedInv`: once the writer is closed, no `Add` is blocked.
- `OkInv`: a 200 was given only after the writer was closed and the body read equals `added`.
- `ChanInv`: the channel holds nothing, or the single result after the goroutine finished.
- `DoneInv`: a successful caller received a 200.
- `StartInv`: before `Write`, the goroutine has not started.
- `WaitedInv`: a selecting or timed-out caller has closed the writer (used by the refinement proof).

`BodyInv` gives backpressure directly. `OkInv`, `DoneInv` and `ChanInv` carry the server's acknowledgement from the transport, through the channel, to the caller. `StartInv` and `ClosedInv` exclude states where a result is already waiting before `Write`, or where an `Add` is blocked on a closed pipe. The proof is laid out as follows:
1. `InitIInv`.
2. `TypeStep` and `InvStep`, with one step per action. `WaitRecv` and `Add` are split into cases on `outcome` and `wclosed`, and the lemma `ReceiveEffect` states what the receive branch does.
3. `AlwaysIInv`, by PTL.

`StreamWriteProofs` also proves `Refinement`: `Spec => WC!SafetySpec`. This says that `StreamWrite` implements the safety part of `WriteCompletion` under the mapping `WC` defined in `StreamWrite`. The mapping works as follows:
- a blocked `Add` is an `open` caller with an encode pending;
- the panic on a nil response is a `done` caller with result `errTransport`;
- the transport's control point, `outcome` and `ch` become the call, its status and the slot.

`Init` maps to `WC!Init`. Each step under `IInv` maps to one abstract step or to a stutter:
- `Add` on an open pipe is a stutter;
- `TransportRead` is `Hand` and `AddDone` is `Ack`, by `BodyInv`;
- `TransportRespond` is `Respond`, by `ClosedInv` and `BodyInv`;
- `TransportSend` is `Signal` and `WaitRecv` is `Receive`, by `ChanInv`.

This needed one more conjunct, `WaitedInv`: a selecting or timed-out caller has closed the writer. Without it, an `Add` from `timedout` would map to a caller going from `timedout` back to `open`. The fairness part of `WC!Spec` is checked by TLC (`WriteCompletionSpec`).

`GrpcReadProofs` proves, for every set of `Frames` and every `MaxFrames \in Nat` (`GrpcAssumption`):
- `TypeCorrect`: `Spec => []TypeOK`;
- `ReadHonest`: `Spec => []ReadResultHonest`.

The messages stay opaque in this proof: it uses only which frame `frameMessage` is applied to. The inductive invariant conjoins `TypeOK` with:
- `ProducerInv`: a blocked send holds a frame taken from the iterator; `ch` is closed exactly when the goroutine finished, with the iterator drained and `apiError` set from `iterErr`.
- `HandlerInv`: let `Handed` be the frames taken, less the one a blocked send holds. While ranging, the stream holds `Handed` messages. While holding a frame, the frame is number `Handed` and the stream holds one fewer. The stream is the messages of the first frames, in order.
- `ResultInv`: a result is set exactly when the handler returned, and nil only with every frame sent and a clean end.

`HandlerInv` is needed because `ReadResultHonest` speaks only of the final state: it takes the count of `Handed` across the unbuffered hand-off to know, at `RangeEnd`, that nothing is still in flight.

`GrpcReadProofs` also proves two theorems about what is sent:
- `StreamFaithful`: `ASSUME WellFormedFrames PROVE Spec => []StreamRoundTrip`.
- `ReadRefinement`: `Spec => RS!SafetySpec`.

`StreamFaithful` is about what `frameMessage` builds. `WellFormedFrames` says what the frames package guarantees of a column (spec §2):
- its DType is one of the five;
- its values form a sequence, and a time is seconds and nanoseconds;
- a slice column's size is its length, and a label column holds one value.

The hypothesis is needed: a slice column of another DType would decode with DType "unknown". The run's frames satisfy it, since `MCGrpcRead` states it as the assumption `MCFramesWellFormed`, which TLC evaluates. The proof adds `SentInv`: every frame on the stream was converted without error. It holds because `SendFrame` appends only after `frameMessageFails` is false, and `HandlerInv` says the appended frame is the next one. The rest is a lemma per column variant:
- `SliceRoundTrip`: the only non-empty typed array is the column's own DType, so `DecodeColumn`'s `CHOOSE` picks it, and `TimeRoundTrip` undoes `TimestampProto`;
- `LabelRoundTrip`;
- `FrameRoundTrip`, which lifts the two to frames.

`Times` bounds nanoseconds by `NanosPerSecond - 1`; the bound is named so that the provers never see the large numeral, which crashes both of them.

`ReadRefinement` shows that `GrpcRead` implements the safety part of `ReadStream`. Its variables map to themselves; the goroutine, `ch`, `held` and `apiError` are hidden. Under `IInv`:
- `ProducerNext`, `ProducerReturn` and `Handoff` are stutters;
- `SendFrame` is `Emit` or `Fail` at `RS!NextFrame`, by `HeldIsNext`: the handler holds frame `Len(stream) + 1`;
- `RangeEnd` is `Finish`, by `ProducerInv` and `HandlerInv`: `ch` is closed only with every frame handed over and sent, and `apiError` equal to the iterator's error.

The fairness part is checked by TLC (`ReadStreamSpec`).

`KVIteratorProofs` proves, for every set of `Rows`, `MaxRows \in Nat` and `Limit \in Nat \ {0}` (`KVAssumption`):
- `TypeCorrect`: `Spec => []TypeOK`;
- `NoSpuriousHonest`: `Spec => []NoSpuriousError`;
- `PagesHonest`: `ASSUME NoTimeCells PROVE Spec => []SchemaFreePagesMatch`;
- `PaginationHonest`: `Spec => []CleanEndPagination`;
- `FrameIteratorRefinement`: `Spec => FrameIteratorSpec`, i.e. `Spec => FI!Spec`.

Three invariants are used:
- `TypeInv` strengthens `TypeOK`. `byName` is a map from row fields to columns of a known type (`ColMaps`), and every cell of a column has the column's type (`Typed`). The same holds for the columns of every frame taken. Lemmas state this for `AppendNil`, `AppendColumn`, `NewColumn`, `AddRow` and `ExtractIndex`.
- `ShapeInv` holds for a source without schema rows. `byName` is the table of the rows drawn in the current call:
  - `rowNum` counts the rows drawn;
  - there is a column for each of their fields and only for those;
  - every column has one cell per row, holding the row's own value where the row has the field;
  - every row drawn is a row of the cursor.

  The lemma `AddRowColumn` gives the effect of `AddRow` on one column. From it, `AddRowShape` shows that a data row keeps `ShapeInv`.
- `ValueInv` adds two facts. A cell of a row lacking the field holds `AppendNil`'s missing value. Every frame taken is the table of its rows (`PagesMatchSource`).

`NoSpuriousError` follows from `TypeInv` and `ShapeInv`:
- a row the loop refuses disagrees with the type of a column, and that type is the type of an earlier row of the cursor (`RowFailsBad`);
- or the row's value has a type that `NewColumn` does not know;
- all columns have one length, so `NewFrame` never refuses (`FrameNotRagged`).

`PagesHonest` needs the hypothesis `NoTimeCells`: no row holds a timestamp. A column created in mid-page is backfilled with `NewColumn`'s zero values, and those equal `AppendNil`'s missing values for every type but time (`ZeroIsNil`). The run `kv_time_missing` shows the theorem fails without it. `FrameColumns` is written without TLC's `@@` and `:>`, which the provers cannot expand.

`CleanEndPagination` says that page `k` holds the data rows of source positions `(k-1)*Limit+1 .. PageEnd(k)`, in order. `DataRowsOf` states this without recursion: an increasing map from the page's positions onto the positions of the non-schema rows of that range. The lemmas `DataRowsEmpty`, `DataRowsSkip` and `DataRowsAppend` say what a schema row and a data row do to it, and `PageArith` computes `PageEnd` at the end of a page. The inductive invariant `PagInv` holds while `ki.err` is nil:
- `PagesDone`: every page taken starts inside the source and holds the data rows of its positions;
- `LoopInv`: inside Next the cursor is `rowNum` positions past the end of the pages taken (`Base`), and `drawn` holds the data rows of those positions; a non-empty page starts inside the source;
- between calls the cursor is at `Base`;
- `EndInv`: after a clean false the cursor is at the end of a source that ended without error, the pages cover it, and a further call draws nothing.

`CleanEndPagination` alone is not inductive: it says nothing while Next runs, and the step that appends a page needs to know that `drawn` is exactly the data rows since `Base`. `EndInv`'s `~srcFails` is what makes a later cursor error impossible after a clean end, which the refinement needs.

`FrameIteratorRefinement` maps `pageRows` to the pages and `ki.err`/the last result to the state. Under `TypeInv /\ PagInv` on both sides of a step (`RefineStep`):
- `NextStart` and the schema and data rows of the loop are stutters;
- a row, cursor or `NewFrame` error with `ki.err` nil is `Fail`: the state was Ready, since after a clean false the cursor is at the end (no row left), the source ended cleanly, and `rowNum = 0` (no frame built);
- a frame taken is `Yield`: `LoopInv` gives that the page starts inside the source and `PagesDone'` that it is the next page (`IsPageDataRows`);
- a clean false is `Exhaust` by `EndInv'`, or a stutter when Next had already returned false;
- every step once `ki.err` is set is `AfterFailure` (`ErrStays`).

`ClientCallsProofs` proves, for every `MaxFrames` and `MaxOps` (`ClientAssumption`):
- `TypeCorrect`;
- `CleanEndHonest`: `Spec => []CleanEndComplete`.

Its invariant adds three facts:
- `ClosedInv`: the body was closed only at a clean end, after every frame.
- `FalseInv`: while iterating, a false with nil `Err()` came from that close.
- `LeakInv`: `leaked <= ops`, which bounds `leaked` in `TypeOK`.

`BackendsProofs` proves, for every `IntVals \subseteq Int`, set of table bases, items, filters and session path (`BackendsAssumption`):
- `TypeCorrect`. `TypeOK` is inductive as it stands. The lemma `StreamAttrsChecked` states what the stream attribute checks let through: a positive shard count and an int retention.
- `TsdbCreateHonest`, the action property. It follows from `[Next]_vars`, with one case for tsdb `Create` and one for every other action, which either changes no call counter or records another operation.

Two details make the proofs go through. SMT cannot encode the empty string, so the `delAll` test of tsdb `Delete` is the operator `DeleteAll`, and `Durations` and `EmptyName` are never expanded. And Boolean-valued variables are typed in steps of their own, which Zenon proves.

TLC only, not proved:
- **Liveness:** `ChannelSendCompletes`, `ReadReturns` and the fairness parts of `WriteCompletionSpec` and `ReadStreamSpec`. TLAPS does not reason about fairness and `ENABLED` here.
- **`Grafana`.** It extends `SequencesExt`, which reaches `RECURSIVE` operators, and its `TSDBPointsPreserved` counts with `MapThenSumSet`, a fold. Its frame loop filters with `SelectSeq`, which tlapm cannot expand, and what a filter or a fold computes over a growing sequence needs induction over the sequence, whose library theorems take an operator parameter the installed provers cannot instantiate. `KVIterator` avoids this by stating its filter as an index map (`DataRowsOf`).

## 5. Plan for the next sittings

1. Show that the client's `streamFrameIterator` (`ClientCalls`) also implements `FrameIterator`, with frames for pages.
2. Restate `Grafana` without `SequencesExt` and `SelectSeq` (index maps as in `DataRowsOf`, non-recursive helpers for the last set item and bounded sequences), so that its `TypeOK` can be proved.
3. Turn the hazards recorded without runs into runs, by splitting them across fewer, broader configurations.
4. Expose the dropped labels of `frameMessage` (H26) as a violation run.
