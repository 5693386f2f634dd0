# netbox: formal verification

netbox is a header-only C++17 library: pcap capture files are read and merged by
time stamp, and BSD sockets, socket options, addresses, buffers and packet headers
are wrapped in small classes. This directory holds TLA+ models of it, the TLC runs
that check them on small instances, and TLAPS proofs of the main invariants.

## The system

### Components

| component | state | operations | what makes it correct |
|---|---|---|---|
| `utils::FileReader` (`netbox/utils/FileReader.h`) | an `ifstream`, an optional decoder stream over it, the pointer to the one in use | open, `read`, `readStruct`, `good`, `eof`, `operator bool`, swap | a read reports what reached the caller's buffer; the stream bits tell end from failure |
| gzip and xz decoders (`netbox/utils/*DecompressStream.h`) | input buffer, output buffer, decoder state, end and error flags | `underflow`, called by the `istream` whenever its buffer is empty | the bytes handed out are the decoded bytes, once and in order; end is reported at the end and not before |
| `pcap::Reader` (`netbox/pcap/Reader.h`) | file, time scale, one packet buffer of `snaplen` bytes | construct, `readPacket`, `good`, `eof`, `operator bool` | packets are the records of the file; a packet points into the reader's buffer |
| `PcapPacketSource` (`netbox/PcapPacketSource.h`) | readers, a multimap of waiting packets, the packet handed out last, a callback | `addFile`, `readNextPacket`, `isDone`, `setDoneCallback` | a merge by time stamp: nothing lost, doubled or overwritten, done only when drained |
| `BasicSocket` (`netbox/Socket.h`) | a file descriptor or -1 | create, adopt, move, swap, close, destroy, `setNonBlocking`, `setCloexec` | one owner for every descriptor, each closed exactly once, none used after its close |
| results (`netbox/result.h`, `netbox/ErrorCode.h`) | return value and `errno`, or an accepted descriptor | `operator bool`, `isClosed`, `isTryAgain`, `bytes`, `getSocket` | the result tells whether the call was done; an accepted descriptor ends in exactly one socket |
| socket calls (`netbox/socket_ops.h`) | none | `connect`, `bind`, `listen`, `accept`, `send*`, `recv*` | the error of the call reaches the caller; who connects is accepted once |
| socket options (`netbox/socket_options.h`, `netbox/details/socket_options.h`) | the option's value | set, get; group requests | what is read back is what was set; the groups joined are those meant, on the interface meant |
| `StaticBuffer`, `ConsumingBuffer` (`netbox/StaticBuffer.h`, `netbox/ConsumingBuffer.h`, `netbox/buffer.h`) | bytes, committed size; pointer and remaining size | `prepare`, `commit`, `consume`, `reset` | a bounded FIFO of bytes that never loses or reorders one |
| addresses (`netbox/details/ipv4`, `netbox/details/ipv6`, `netbox/IPv4.h`, `netbox/IPv6.h`, `netbox/details/byte_order.h`) | address bytes in network order, port, scope id | make, convert, set, get, `resize` | the bytes the kernel sees name whom the program meant, through any chain of conversions |
| resolver (`netbox/resolve.h`) | the `addrinfo` list | `resolve`, iteration | every result is freed once; host and port are split correctly |
| packet headers (`netbox/pdu`) | a view of bytes | accessors, `payload` | a payload lies inside its packet |
| examples (`examples`) | locals of `main` | read loops, the connect loop, one accept | the loops end; errors reach the user |

Not models' business: `netbox/compiler.h`, `netbox/debug.h`, `netbox/exception.h`,
the build files and the one test (`tests/test_ipv4.cpp`).

### How they interact

`PcapPacketSource` owns `pcap::Reader`s, which own a `FileReader`, which owns the
`ifstream` and perhaps a decoder whose `underflow` pulls bytes from it. The user's
loop calls the source, and the source calls the user's done callback, which may call
the source again. Sockets are values: `accept` returns a result that holds a bare
descriptor until `getSocket` makes an owner of it. `StaticBuffer` is filled by
`recv` through `prepare`/`commit` and emptied by the parser through `consume`.

The library starts no threads and persists nothing. What is hard about it is
ownership and aliasing (a packet points into a buffer that the next read
overwrites; a descriptor is closed by whoever owns it last), sequences of calls
(end, exhaustion, failure, then more calls; callbacks that re-enter), partial
failure (a file that fails in its header, a call that fails after another has
succeeded), refill loops whose state spans calls, and widths.

## The models

One module models one component; `MC*` modules give it instances for TLC, `*Proofs`
modules hold its theorems. Definitions keep the names of the code where they can;
`PROJECT.json` maps each to its lines. A definition that appears before another and
differs from it in one place (`CloseKeeping`, `NeverShort`, ...) is a plausible bug:
each property is checked to fail when the definition is replaced by it.

| module | models | state and actions |
|---|---|---|
| `FileReader` | `utils::FileReader` | a record of stream bits, position and contents in words; `Open`, `Read` are operators, used by everything below |
| `PcapReader` | `pcap::Reader`, `pcap::Packet` | a record of file, scale and the one buffer; `NewReader`, `ReadPacket` with every early return; and, independently, `HasRecord`, `TimeOf`: what the file format says. It has no time for a fraction of a second or more; of such a corrupt count `NsecOf` takes what 32 bits keep, as the reader does |
| `PcapPacketSource` | `PcapPacketSource` | `storage_`, `queue_`, `current_`, `doneCallback_` and the callbacks on the stack; `AddFile`, `ReadAvailable`, `ReadExhausted`, `CallbackReturns`, `SetDoneCallback` |
| `PacketMerge` | the promise of `PcapPacketSource` | files, positions and what was emitted, without readers, buffers or queue |
| `Layers` | the views of `netbox/pdu`, as `printPacket` lays them over a packet | operators: a view is a place in the buffer and a 32-bit size, `Behind` is `payload()` with `payloadSize()`, `Throws` the constructors' check; and, independently, `HeadersOf`: the headers a frame has, UDP behind the options of IPv4 |
| `PcapReaderLoop` | the loop of `examples/pcap_reader.cpp` with `printPacket` | `Iterate` |
| `DecodedStream`, `GZipStream`, `LZMAStream` | the two decompressing streams | the file, the input buffer, what the decoder holds, the output buffer, the get area; one action for each step of `underflow` and for the copying of `istream::read` around it |
| `CompressedStream` | the stream a `FileReader` puts in front of a `.gz` or `.xz` file | either of the two, chosen once |
| `ByteStream` | the promise of a decoded stream | the reads `FileReader` is modelled with |
| `Sockets` | `Socket` and the kernel's descriptor table | every constructor, move, swap, `close`, destructor and flag; the program opens and closes descriptors of its own; numbers are used again |
| `Results` | `OpResult`, `TransmitResult`, `SocketResult`, `ErrorCode` | operators, with `errno` as an argument |
| `Receiver` | `StaticBuffer`, `ConsumingBuffer`, `recv` | the storage byte by byte, the prepared region, the result, the parser's view; the other end sends, leaves and resets |
| `ByteChannel` | the promise of `Receiver` | what was written and what was read of it |
| `Connections` | `resolve`, `connect`, `bind`, `listen`, `accept` and the examples around them | the name each client was given and what `getaddrinfo` is asked for it; several clients in their loops over the answer, one server that accepts once, the backlog between them, and the kernel that closes what waits when the server ends |
| `Addresses` | the address and endpoint classes of both families, `byte_order.h` | operators on the bytes in memory, a load and a store of the machine's byte order between them and numbers |
| `Datagrams` | `sendto`, `recvfrom`, `setOption`, `getOption` and the options, over `Addresses` | an address, an endpoint, the kernel's memberships and options; one action per operation; and what each was meant to name |

How they are put together: `PcapReader` extends `FileReader`; `PcapPacketSource` and
`PcapReaderLoop` extend `PcapReader`, the latter `Layers` as well. The file reader does not look into a compressed
file: it is modelled over decoded words, with an ending that may be an exception.
`CompressedStream` closes that gap: it implements `ByteStream`, whose reads are
`FileReader`'s `Read`. `Receiver`, `Connections` and `Datagrams` extend `Results`, and
`Datagrams` extends `Addresses`. `Sockets` stands alone: `Connections` counts sockets only.

What the models abstract from:

- the contents of a capture file are words; a record's header is three of them (the
  length on the wire is only copied, and left out), a payload as many as its length
  says. Time stamps, word size and snapshot limit are scaled down
  by constants, so that a microsecond count does wrap.
- of a packet header the model keeps its first word, which stands for the fields that
  decide what is read next. The inner type of a tagged frame, the length of an IPv4
  header and its total length are read nowhere in the code. The model tells a header
  with options (of one size, `OptionsSize`) from one without; it does not tell the inner
  types of a tag apart, nor Ethernet padding from payload.
- a compressed file is a sequence of units, each with the bytes it yields; zlib and
  liblzma are external. They consume units, hold output they had no room for, end,
  fail, or idle, as their interfaces allow.
- in `Receiver` a byte is its number in the stream, so that a lost, doubled, displaced
  or left-over byte shows. The program is any that keeps to the contract of the two
  classes: it commits what `recv` returned into the region it just prepared, and
  consumes what its view took. `consume` of more than there is, which nothing in the
  code prevents, is outside.
- a name in `Connections` is a sequence of words and colons, with or without a port
  behind it; an IPv6 address is one with several colons. `getaddrinfo` is external: a
  directory says which lists it may return.
- in `Connections` a connection is named after its client. The server is `accept.cpp`:
  it accepts once, prints and returns from `main`, which closes its sockets; the kernel
  then closes the connections that still wait. `accept` is modelled in both forms, the
  one that fills in an endpoint with an uninitialised length.
- in `Datagrams` the machine's byte order is a constant. The kernel reads the memory it
  is given: it takes a membership if the bytes are a group and the link is one it has,
  and may refuse any call. An answer comes from any host, over any link.
- descriptors are numbers, sockets are numbered as they are opened (`meant` is the one
  an object was given), and the bytes of a destroyed object keep their value.

## What is checked

Seven runs pass. All are exhaustive on their instance.

| run | question | bounds |
|---|---|---|
| `source` | the order and the integrity of merged packets, `isDone`, the proofs' invariant; does the source implement `PacketMerge`, and does the user's loop end? | 3 files out of 15, 2 nested callbacks |
| `reader_loop` | does the loop print the file's records, all, with their own headers, and end? | every file of up to 7 words of 0..2; two frames, the second of up to 5 words of 0..3, headers and options of one word |
| `compressed` | do both decoders implement the reads that the file reader is modelled with? | 48 files of up to 9 units, buffers of 2, reads of 0, 1 and 3 bytes |
| `sockets` | one owner, no leak, never another one's socket | 3 objects, 2 descriptors, 3 openings |
| `receiver` | the bytes' order, none lost, the end believed only when it is one, refinement of `ByteChannel`, progress | storage 3, records of 2, 7 bytes over all connections |
| `connections` | what the user named is what is asked for; one connection and one socket for each client, or none, also where the server ends | 2 clients, 4 names, 5 lists of endpoints, a backlog for one |
| `datagrams` | do addresses, ports and group requests reach the kernel as meant, and is a failed call told from one that worked? | both families, little-endian, 2 interfaces, 1 or 2 hosts and a group of each family, 1 port |

Five more runs are expected to fail. Each shows that the code does not do what one of
its comments or examples says:

- `source_valid`: `operator bool` of a reader is true for a file that is missing,
  truncated or not a capture, because the reader replaces its stream by a
  default-constructed one; `addFile` keeps such a file.
- `gzip_members`: of a gzip file with several members only the first is delivered.
- `sockets_cloexec`: `setCloexec` succeeds and sets nothing (`F_SETFL` for `F_SETFD`).
- `accept_failure`: `accept` with an endpoint resizes it after a failed call to a
  length nobody set, which throws out of a `noexcept` function.
- `datagrams_empty`: a datagram of no bytes that was sent or received gives a result
  that is false (`value_ > 0`), where `result.h:54` says of the test "Return true if
  operation was success".

### What the properties say

- `OneOutstanding`, `BuffersIntact`: a reader has one buffer, so one packet at most may
  wait or be in the user's hands, and adding files or calling from the callback must
  not overwrite it. `DoneMeansDrained`, `SortedOutput`, `TiesTakeTurns` and `MergeSpec`
  say what the merge promises; `SortedOutput` names the two ways in which a packet may
  come late (its file was added late, or is out of order itself).
- `PrintsRecords`, `PrintsAll`: compared with the records a file has by its format,
  whatever bytes it holds. What the loop prints behind an overlong record is out of step
  with the records, and exempt. Times are compared with the format's for counts of less
  than a second; a corrupt count, which wraps at `Reader.h:77`, has no time to compare
  with. The same holds of `MergeSpec` and `IInv` of the source. `LoopEnds` of the example
  is about files whose decoder does not throw, as that of the one file it opens never
  does.
- `PrintsItsHeaders`: the views trust one size check each, and the buffer still holds
  an earlier, longer packet. The property names the one frame it does not hold of: one
  that ends inside its 802.1Q tag, where `payloadSize() - ipHeaderOffset` wraps ("I'm
  too lazy to check payloadSize", `examples/pcap_reader.cpp:40`). Behind an IPv4 header
  with options (`OptionsForPorts`) only UDP's may be wrong, and is still read from the
  packet's own bytes.
- `NothingLost`, `LeftBehindMember`, `ImplementsByteStream`: state that outlives a call
  of `underflow`, the end of a member inside the input buffer, and the difference
  between an end and a failure.
- `UniqueOwner`, `HoldsWhatWasMeant`, `NoLeak`, `OnlyOwnersClose`: with numbers used
  again, so that a copy that survives a close does harm.
- `HandledInOrder`, `NoByteLost`, `ClosedMeansClosed`: the last is about a comment of
  `result.h:67`, that `isClosed` is also true after `recv` into a region of size 0. A
  program that parses every whole record never has such a region.
- `ResolvesWhatWasNamed`: where a text is split decides who is asked for. It holds of
  every name with a port, whatever its colons, and of a name without one that has no
  colon; an IPv6 address alone loses its last word to the port. No text of the
  repository promises otherwise, so the property names the exception and no run is
  expected to fail for it.
- `ReachesMeant`, `JoinedAsMeant`: `meant` and `target` say what the program wanted, the
  other variables hold bytes that were swapped, copied and swapped back. The exceptions
  are the code's: `setAddress` drops the scope id of an IPv6 address and keeps that of
  the endpoint (`kept`), and an address taken out of an endpoint names no link.
- `ErrorsReported`: says of the test of a `TransmitResult` only that no failed
  transmission passes it. That a successful one does is `SuccessIsTrue`, which fails.
- `OneConnection`, `SocketsClosed`, `FailedMeansAllTried`, `ResultIsTrue`: the break
  out of the loop, the sockets of endpoints that did not answer, and the connections
  the kernel closes because `accept` failed or the server ended. They do not speak of
  the endpoints behind one that throws, which are never tried, nor of the address that
  `accept` filled in, which a small length cuts off.

### Why the bounds are enough

Three files make two wait while one is in the user's hands, with ties among the two;
the files are chosen one for each way a file can be read or rejected, and a callback
inside a callback already calls a source that is in the middle of a call. Files of
seven words hold a record and a half with every header, or one record and garbage
behind it; a frame of five words has room for all headers and the options, and every
shorter one ends inside one of them. Buffers of two units are filled exactly, by less
and by more, and end before, at and behind a member's end. Two descriptors and three openings use one number
again while another socket is open. Storage for three and records of two leave a rest
of none or of one byte, behind one record or none, which `consume` brings to the front;
the rest is never longer than what was consumed, so its ranges do not overlap. With a backlog for one the
second client meets a full queue. In `datagrams` no port and no address but zero reads
the same backwards, so that a swap too few or too many shows, and two interfaces tell
the one meant from another; a second host adds a link-local address to a global one.
The constants of the proved modules are not bounded in the proofs.

### Fairness

The programs are sequential: a call that was made runs on, so a step that stays possible
is taken. That is `WF` of `Iterate`, of `Loop` (the user's loop over `isDone`) and of
`CallbackReturns`, of `Step` in a running read, and of `Program` in the receiver. Nothing
is assumed of the other end of a connection, nor that anybody calls a library object
again, except where a run is about such a loop. No action has strong fairness.
`Sockets`, `Connections` and `Datagrams` state safety only and assume none.

`PcapReaderLoop` and `Connections` are checked without deadlock checking: their programs
end. The others never stop: their user may always call something.

## What is proved

By TLAPS, for all values of the constants:

- `PcapPacketSourceProofs`: `Spec => []IInv`, and from it `TypeOK`, `OneOutstanding`,
  `BuffersIntact` and `DoneMeansDrained`. None of these is inductive by itself: that a
  buffer stays intact needs that its reader is not read again, that is `OneOutstanding`
  and where each reader stands (`QueueHoldsNext`, `CurrentIsLast`); that `isDone` means
  drained needs that a reader in no queue has nothing left (`IdleAreDrained`). All of it
  rests on `ReadersCoherent`: the data, scale and buffer size of a reader are those of
  its file.
  The lemmas are about `Emplace` (what insertion into a sorted sequence keeps) and about
  `ReadPacket` (`PcapReaderProofs`: it returns the next record of the file's format if
  and only if there is one, and stands behind it).
  In its second half: the refinement `Spec => MergeSpec`, and `[]SortedOutput` and
  `[]TiesTakeTurns`. For the refinement the entry handed out is the least of those
  waiting, which are the next records of all files but the exhausted ones. That the
  output is sorted speaks of pairs of packets long gone, so its invariant (`WaitInv`)
  says what was true of a file all the time since: a file that was there when packet i
  was handed out has handed out a packet that is not earlier, or its next one is not.
  That ties take turns needs the order of the queue (`TieInv`): a file that waits with
  the time of packet i stands before the file of packet i among its equals, also after
  that one was put back behind the upper bound. Last, the action property
  `EveryCallAdvances`, the half of `LoopEnds` that needs no fairness: a call brings one
  file on and none back, or the source is done when it returns.
- `SocketsProofs`: `Spec => []IInv`, `UniqueOwner`, `HoldsWhatWasMeant`, `NoLeak`,
  `NonBlockingAsAsked`, and the action property `OnlyOwnersClose`. The invariant adds
  that what the program holds itself is open and that no two numbers lead to one socket.
  Each action adds, removes or hands over a pair of owner and descriptor, and the lemmas
  are one for each of these.
- `ReceiverProofs`: `Spec => []IInv`, `HandledInOrder`, `NoByteLost`,
  `ClosedMeansClosed`, and the refinement `Spec => ChannelSpec`. The invariant says
  which bytes the storage holds and where (`Contents`, `ResultIsIn`), that the region
  begins where the committed bytes end (`RegionIsTheEnd`), and that outside the parser
  less than a record is left (`RoomLeft`), which is why a region is never empty.
- `PcapReaderLoopProofs`: `Spec => []IInv`, `TypeOK` and `PrintsItsHeaders`, and from a
  second invariant `PrintsRecords` and `PrintsAll`; and the action property
  `EveryIterationAdvances`. `IInv` adds that the reader agrees with its file
  (`Coherent`), so that
  `ReadPacketNext` gives the bytes in the buffer; `PrintPacketFrame` is the lemma that
  follows the views down a frame and shows that no size wraps unless the tag is cut, and
  `ReadOrOptions` compares what was read with what the frame has. That what was printed
  is a prefix of the records is not inductive: it does not say that the reader stands at
  a record. `Following` does: the chain of records is what was printed and the chain from
  where the reader stands, until an overlong record puts it out of step
  (`RecordFollows`, `NothingFollows`; `ReadPacketStops` in `PcapReaderProofs` says that a
  call without a record leaves a stream that is not good, or has passed such a record).
  `EveryIterationAdvances` is the half of `LoopEnds` that needs no fairness: an iteration
  brings the reader on in its file, which is finite, finds its end, or has been thrown at.
- `CompressedStreamProofs`: `Spec => []IInv` for both decoders, and from it `TypeOK`,
  `NothingLost`, `LeftBehindMember`, and the refinement `Spec => ImplementsByteStream`.
  `NothingLost` compares with the whole file decoded and is not inductive. `IInv` says
  instead where everything is (`Buffered`): the input buffer is the slice of the file up to
  `pos`, and what was delivered, copied, buffered and held back by the decoder is what
  was consumed before that slice, decoded; a step moves bytes along this line or decodes
  the next slice (`Decoded` of two slices is one after the other). `Reading` says which
  buffer is in use at which step of a read, and is why a refill never overwrites one that
  is not empty. `GZipInv` adds that `inflate` has stopped at the first unit that
  ends or breaks the member, and that an end is reported with nothing buffered;
  `LZMAInv` that `outputDone_` is set only when all of the file is decoded and stands at
  the end of a stream. In the refinement the data of the abstract stream is fixed from
  the start (`Data`, of a damaged xz file what lies before the damage); every step but
  the last of a read is a stutter, and that one is the abstract read.
- `ConnectionsProofs`: `Spec => []IInv`, and from it the five safety invariants of the
  run. `LoopInv` says where a client in its loop stands: which endpoints have been
  refused, which socket is open, how far the iterator is at each step. What enters and
  leaves the queue is counted (`CountAppend`, `CountTail`: a bijection between the places
  of a client before and after). `SplitWhereJoined` is about texts: the last colon of
  host, colon and port is the one that joined them.
- `DatagramsProofs`: `Spec => []IInv`, `ReachesMeant`, `JoinedAsMeant` and
  `ErrorsReported`, for either byte order and addresses of any bytes. The lemmas are
  `OrderUndone` (two swaps are none), one for each chain of conversions, and
  `GroupsAreMulticast` (what the kernel takes for a group, `isMulticast` does too).

The assumptions are those on the constants (`SourceAssumption`, `SocketsAssumption`,
`ReceiverAssumption`, ...): types, a storage that holds at least one record, a size
type that is wider than the storage, buffers that hold a unit, and that the end of a
member yields no byte of data. TLC evaluates them on each run.

`Chain` and the community module's `FlattenSeq`, which `Decoded` is made of, are recursive
functions. What
they compute is proved without an induction rule for formulas: `Induction` is the rule
for a set of numbers (from `WFMin` of the well-founded relation on `Nat`), the table of
the function is shown to exist for lengths or positions in turn (`FlattensExists`,
`ChainFromExists`, the latter from the end of the file to its start), and facts about it
follow by the same rule.

Only model-checked: the liveness properties `LoopEnds` (of the example and of the source),
`ReadsReturn` and `RecordsArrive`; liveness and ENABLED are out of the prover's reach. Every invariant, action property and refinement that a passing run checks
is proved.

## What is not modelled

- `rxring.cpp`: three `setOption` calls in a row and the geometry of a ring in
  floating-point arithmetic, with no state of the program behind them; with it
  `StructOption`, which nothing else uses.
- `resize()` of an option, which throws if the kernel changes the size of an `int`.
- `sendmsg`, `recvmsg` and `recvmmsg`, whose messages the program lays out itself, and
  `send`, which is `sendto` without an address.
- `SocketResult(Socket&&)`, which asks a member that has no value yet, and `FileReader`'s
  move constructor, which swaps with such members: nothing calls either.
- texts: `toString`, `operator<<`, the messages of errors, and the parsing of an address
  by `inet_pton`; tests of addresses that change nothing (`isLoopback`, `operator==`).
- errors of the `ifstream` itself (a disk that fails); `connect` interrupted by a signal.
- a program that copies `Socket::native()`, passes a negative size, or consumes more of a
  buffer than there is.
- `netbox/compiler.h`, `netbox/debug.h`, `netbox/exception.h`, `netbox/details/concepts.h`,
  the build files, and the one unit test.

## Plan

Done: every component with state is modelled, and every safety property and refinement
is proved.

Left: the variants behind the other liveness properties, as action properties, the way
`EveryIterationAdvances` and `EveryCallAdvances` are for the two loops: for `underflow`
(what is left of the file, of what the decoder holds, and of the space in the output
buffer), for the receiver's loop, and for a client's loop over its endpoints.
