# A TLA+ verification of GoMetadata

GoMetadata is a Go library that reads and writes the EXIF, IPTC and XMP metadata
of image files (JPEG, PNG, WebP, HEIF/AVIF, CR3, TIFF, DNG, CR2, NEF, ARW, ORF,
RW2). This directory holds TLA+ models of it, the TLC configurations that check
them on small instances, and proofs that TLAPS checks for every instance.

Paths below are relative to the root of the repository.

## 1. Inventory

| Component | Source | State | Operations | Makes it correct |
|---|---|---|---|---|
| WriteFile | `write.go`, `write_unix.go` | a file, a temporary file beside it, the directory | resolve, open, temp file, chmod, Write, sync, close, rename, directory sync, clean-up | the name always leads to a whole image; a link that was resolved is not replaced; an error changes nothing |
| Metadata and its setters | `metadata.go`, `options.go` | raw and parsed EXIF, IPTC, XMP; which are modified; which could not be parsed; the mutex | `Set*`, `MarkModified`, `Validate`, assignment of the exported fields | a setter updates every segment that must carry the field, and marks it; an opaque segment is not replaced |
| Read | `read.go` | options, the extracted payloads | detect, extract, parse with `applyOrWarn` | raw bytes are kept when a segment is skipped or malformed |
| Write plan | `write.go`, `write_plan.go` | which segments are encoded, which are carried | `planWrite`, `encodeSet`, `sourceMatches`, `encodeLocked`, `copyThrough` | what was not modified is carried byte for byte, what was is written |
| Reconciliation | `reconcile.go`, `internal/reconcile` | the three segments and the trust in the IPTC digest | field by field choice of the source | a writer that only knew IPTC is not overruled by stale copies |
| JPEG injector | `format/jpeg` | segments, splice plan, extended XMP accumulator, trailer | scan, drop, insert, emit | segments that are kept stay in place and whole; the pixels follow |
| PNG, WebP, HEIF, CR3 injectors | `format/png`, `format/webp`, `format/heif`, `format/raw/cr3` | chunk and box lists, offsets | inject, `iloc` and `stco` patching | offsets still lead to the same bytes |
| TIFF relocation | `format/tiff`, `format/raw/*` | IFDs, image blocks, layout of the output | enumerate, relocate, stream, extents | every block is copied once, and its offset patched |
| EXIF codec | `exif` | IFD tree, MakerNotes, private IFDs | parse with cycle and depth limits, encode | parsing ends; an encoded tree parses to itself |
| IPTC codec | `iptc`, `internal/irb` | datasets, encoding, image resource blocks | parse, encode, splice | unknown datasets and other resources survive |
| XMP codec | `xmp` | properties, RDF tree, extended packets | parse, project, serialise, split | edits reach the tree, the rest of the packet survives |
| Format detection | `format/detect.go` | the first bytes | magic tests in order | the first match is the right one |
| Support | `internal/iobuf`, `internal/trailer`, `internal/bmff`, `internal/riff`, `internal/tiffscan` | pooled buffers, trailer layout | copy ranges, scan | a pooled buffer is used by one owner at a time |

### How the components interact

- A caller holds a `*Metadata`. `Read` fills it: `format/detect.go` chooses the
  container, its extractor returns raw bytes per segment, and the codecs parse
  them unless the caller asked to skip one or it is malformed. The raw bytes stay
  in the `Metadata`.
- The setters, and the caller through the exported fields, change the parsed
  values. `Metadata.mu` protects the setters; the exported fields are not
  protected.
- `Write(r, w, m)` has no state of its own. `planWrite` compares `r` with the raw
  bytes of `m` and decides, under `m.mu`, what to encode; the lock is released,
  and `encodeLocked` takes it again. The container's injector merges the payloads
  with the segments of `r` and streams the rest.
- `WriteFile` wraps `Write` with a temporary file and a rename. The file system is
  what several processes share.
- The JPEG injector uses `internal/irb` for the image resource block that holds
  the IPTC, and keeps extended XMP that the reader could not merge.
- The injectors take their buffers and plans from pools shared by all goroutines.

### What is hard

- *Failure and crash* (WriteFile): every step may fail, and the machine may stop
  between a rename and the sync of the directory.
- *Stale state* (the write plan): the raw bytes, the parsed values and the marks
  come from one image, and the image being written may be another, or the same
  one already rewritten.
- *Interleaving* (the write plan): the lock is free between plan and encoding.
- *Long sequences of calls* (Metadata, JPEG): the output of one write is the
  source of the next; a mark, a link or a digest that is left over bites then.
- *Positions* (JPEG, HEIF, CR3, TIFF): what is inserted and removed moves what
  other parts point to.
- *Input of other programs* (extended XMP, image resources, IFDs): reordered,
  repeated, overlapping, cyclic, or larger than declared.

- *Layout computed before writing* (EXIF, TIFF, HEIF, CR3, XMP for a JPEG):
  pointers, sizes and offsets are fixed first, and what is written later must land
  exactly there.
- *Walks of untrusted graphs* (IFDs, SubIFDs, extents): pointers form cycles and
  share what they lead to; a walk must end, within its budget, and still find all.
- *Three copies of a field* (reconciliation): other programs update one of them, and
  a later read must not prefer a stale one.

`PROJECT.json` lists each hazard at its line, with the properties that cover it
or the reason why none does.

## 2. Modules

| Module | Models | Checked by | Proved in |
|---|---|---|---|
| `AtomicReplace` | what `WriteFile` promises, without its steps | as `Replaces` of `WriteFile` | |
| `WriteFile` | `WriteFile` of `write.go`, `fsyncDir` of `write_unix.go` | `MCWriteFile` | `WriteFileProofs` |
| `MetadataWrite` | `Metadata`, `Read`, the setters, `Write` and its plan | `MCMetadataWrite` | `MetadataWriteProofs` |
| `JPEGInject` | the image resources and their splice, `InjectKeeping`, the scan and the splice plan | `MCJPEGInject` | `JPEGInjectProofs` |
| `ExtendedXMP` | the accumulator of extended XMP and its assembly | `MCExtendedXMP` | `ExtendedXMPProofs` |
| `IFDWalk` | `exif.Parse`: traversal, budgets, arena, thumbnails | with `IFDEncode`, which extends it | `IFDEncodeProofs` |
| `IFDEncode` | `Encode` and the life of an EXIF value: parse, edit, encode, parse | `MCIFDEncode` | `IFDEncodeProofs` |
| `TIFFExtent` | which bytes of a large TIFF are read, and the compacted stream | `MCTIFFExtent` | |
| `TIFFRelocate` | enumeration, layout and writing of image blocks and SubIFDs | `MCTIFFRelocate` | `TIFFRelocateProofs` |
| `PNGFile`, `WebPFile`, `HEIFFile`, `CR3File` | reader and writer of each container, as operators | through `ContainerWrite` | |
| `ContainerWrite` | `Read`, a setting, `Write` over those four | `MCContainerWrite` | |
| `Reconcile` | the IPTC codec with its character sets and limits, setters, getters and the trust in the digest | `MCReconcile` | |
| `XMPPacket` | RDF forms, data model, aliases, the flat view, edits, their merge with the tree, the two portions of a JPEG | `MCXMP` | |
| `Trailer` | the trailers behind an image and the region that is rewritten | `MCTrailer` | |
| `Lists` | nothing of the code: lemmas about sequences and recursive functions | | itself |

Each `MC` module only gives values to the constants. Next to some operations a
module has a variant marked *Faulty*: the same operation with a plausible bug
(a step left out, a guard dropped). No specification uses them; each property has
been shown to fail when one of them takes the place of the real operation.

### AtomicReplace and WriteFile

`AtomicReplace` knows images as sets of edits. A call begins on one file, then
either replaces it in one step by the image it read plus its own edit, or fails
and replaces nothing; a call whose path led to no file replaces nothing either. A crash takes a file back to an image it held since its
directory last reached the disk.

`WriteFile` has one action per system call of the function: `EvalSymlinks`,
`Open`, `Stat`, `CreateTemp`, `Chmod`, `WriteFirst` and `WriteRest` (`Write`
streams, so an observer may see the middle), `Sync`, `Close`, `Rename`,
`FsyncDir`, and the deferred `Cleanup`. `Failure` is the error of any of them:
`Refuse` before the temporary file exists, `Abort` with the clean-up after. The
exception is `EvalSymlinks`, as in the code: on any error - a link that dangles, a
directory that cannot be read - the call goes on with the path it was given. The
variables `pc`, `real`, `fd`, `fi`, `tmp`, `err` are the local variables of one call:
`Stat` keeps the mode of the file in `fi`, and `Chmod` gives it to the temporary file,
whatever happened to the original since. `unresolved` remembers which calls went on with
their path.

The file system is external: `dir` is what programs see, `pend` the entries a
crash may leave, `data`, `synced` and `mode` belong to inodes. Only a creation, rename or
removal changes an entry, only a directory sync or a crash settles it, and data
that was not synced may be torn by a crash. `Relink` is another program moving a
symbolic link.

The refinement maps `Open` to `Begin`, `Rename` to `Replace`, `FsyncDir` to
`Succeed`, a refusal or `Cleanup` to `Fail`, `Crash` to `Crash`, and every other
step to a stutter. A call that could not resolve a link renames over the link: it replaces
no image file, and its `Open` is the step `StepAside` of the abstract specification. What
it does to the link is the subject of `LinkSurvives` and `WriteFile_link.cfg`.

### MetadataWrite

The state is the image in each file, the `Metadata` values, and the write each
goroutine runs. A segment is abstracted to where it comes from (`of`), the edits it
contains, whether it was encoded by this program or is byte for byte the original
(`encoded`), and its form: whole, malformed, or, for an XMP, how it is split into a
standard packet and extended XMP. `pixels` stands for all image data, and `laid`
for the layout a TIFF's offsets refer to. `size` is the image whose dimensions
`fillPixelSize` put into an EXIF that a setter made: `Pending` until the first write to a
JPEG. A TIFF is read whole, or *streamed* (only its metadata is read, as `tiffPrefixBytes`
and `writeSource` do), and both kinds are in one world.

| Action | Code |
|---|---|
| `Read`, `NewMetadata` | `Read` and the extractors (`MetadataOf`, `RawXMP`), `NewMetadata` |
| `Set`, `MarkModified` | the setters: `ensureEXIF`, `ensureIPTC`, `ensureXMP`, `touch`, `mirrorAndTouch` |
| `EditDirectly`, `Assign` | a caller using `m.EXIF`, `m.IPTC`, `m.XMP` |
| `Begin` | `Write` up to and with `planWrite` (`encodeSet`, `sourceHolds`, `sourceMatches`) |
| `Finish` | `encodeLocked`, the encoders, the injector of the container, and the replacement of the file |

`Begin` and `Finish` are two actions since the lock is released in between. Three
variables are not in the code but record what the documentation promises: `seen`
(the image as `Read` found it), `due` (the edits `Write` owes) and `assigned`;
`settled` remembers which writes would be repetitions.

### JPEGInject

A JPEG is a sequence of segments; a segment is a kind, an identity and, where the
writer looks inside, the GUID and part of extended XMP or the list of image
resources. `Begin` is the work before the scan (`resolveOrigIRB`,
`resolveKeptExtended`, what is kept); `ScanAlone`, `ScanSegment`, `ScanTooMany` and
`ScanStop` are the iterations and exits of `scanSplice`; `PutIn`, `PutTooLarge`,
`LeaveOut` and `Finish` are those of `writeSplice` and `writeTail`. `put` is what `emitOps`
returns and has not been put in yet, as a set of kinds: `Soonest` is the one whose turn it is, by
offset and then by kind. An offset is a segment boundary. The plan is recycled from call to call like the pooled one, and
the output of a call is the source of the next. The reader of the output
(`ReadEXIF`, `ReadXMP`, `ReadIPTC`, `Others`) is `ExtractFull`, which walks by
`readSegment` and not by the scan: where the two disagree, the properties see it.

A resource that another program cut over two APP13 segments is a `"head"` and a
`"rest"`; `Join` makes one resource of the two, as `extractOriginalIRB` does.

### ExtendedXMP

`Add` is `extAcc.add` for one chunk in file order, with its three outcomes (GUID
refused, chunk dropped, chunk stored), and `Finish` is `buildXMPResult` with
`assemble`. Byte `i` of a document is the number `i`, so a document that was put
together wrongly differs from the right one. Blocks, their capacity and the
estimate `avail` of what the file can still hold are part of the state. A chunk may be
empty, so that several are at one offset; `slices.SortFunc` is not stable, and `Sorted`
is the set of the orders it may leave. A large first block has room for a frame in front
of the document (`FrameRoom`).

### IFDWalk and IFDEncode

A stream is the directory at each place where one can be read: the number of its
entries, the sizes of its values, its pointers, its thumbnail. `Begin` starts one
traversal of the list `todo` (the chain of IFD0, the Exif, Interoperability and GPS
IFDs, the same of later IFDs); `Ends`, `AtBudget`, `InCycle`, `Unreadable` and `Follow`
are the exits and the body of the loop of `traverse`, and `Strips` is
`attachThumbnailStrips`. `bud` is `traverseBudget`, shared by all traversals; `arena` is
the array of IFDs and of entries that they all append to, with the slots that are given
back; `spent` is not in the code and counts the work.

`Encode` computes `plan` (`planChain`, `ifdTotalSize`, `EncodedSize`) and writes IFD0;
`EncodeSub` and `EncodeChain` write the others, each after what was written before.
`Reparse` reads the output with the same traversal. An offset is a number of bytes, so
that a plan that is off by the padding of one value leads elsewhere.

### TIFFExtent

`Visit` is one step of `walkIFD` over the prefix read so far; `EndRound` compares what the
round needs with what was read, reads more, or gives up after `MaxPasses`; `Collect` and
`Build` are the walk of `sparse.go` and the compacted stream with its rewritten
offsets. The reference is `Parse` applied to the whole file.

### TIFFRelocate

`EnumerateMain` takes the blocks of one IFD of the chain; `Root`, `Element`, `ArrayDone`,
`FollowNext` and `WalkDone` are the recursion of `enumerateSubIFDs` with an explicit
stack, with their limits on the elements of an entry (`Capped`, `ArrayTaken`), on a
chain (`ChainCut`: its rest is left out without an error), on depth and on the budget;
`Plan` gives every SubIFD and block its place in the output, where an offset that would be
too large is the largest there is (`Over`); `WriteHeader`, which first looks again whether every
block is in the file (`Contained`, the code's `checkBlocks`), `WritePiece` and `WriteTail` write it.
`Says` is what an element of the output says of its block: one of type SHORT in an IFD
cuts the offset to its width, one in a SubIFD keeps what it said. A cell of the output is the offset it was
copied from, or a negative number for what is made anew.

### The containers

`PNGFile`, `WebPFile`, `HEIFFile` and `CR3File` each have `Extract`, `Inject`, `Rest` (all
that is not metadata, as offsets lead to it) and `Valid`, and no variables.
`ContainerWrite` composes them with the write plan: `Read`, `Set`, `Write` to the image that
was read, and `WriteInto` another. In a PNG and a WebP a file is its chunks; in a HEIF
and a CR3 it is its boxes, and offsets are numbers of bytes into the file, followed by
`HEIFFile!LeadsTo`, so a box that grows by one byte too many is seen.

### Reconcile

The first half is `Parse`, `Encode`, the setters and `DecodeString` of the IPTC codec, over
values that are sequences of bytes. In the second half a file holds the EXIF, IPTC, XMP and digest
that some programs left; `Read` (possibly without some segments) computes the trust,
`SetField` is a setter with its `WriteAlways`, `WriteIfPresent` and mirror rules, `Write`
encodes what is modified and refreshes the digest, and `OtherCaption` is another program
that edits the IPTC only. `Get` is the getter, per field.

### XMPPacket

The first half reads elements with attributes into the data model by the rules of
`parserdf.go` (every form of a property element, containers, qualifiers, aliases).
The variables are a packet `doc`, the tree `src` a `Read` made of it and its flat view of
keys; `Set`, `Add` and `Delete` edit the flat view, `Write` merges it with the tree and
serialises (`serialize.go`), and `Package` splits the result as `PackageForJPEG` does.

### Trailer

A region behind the image is a sequence of cells. `AFCP`, `FotoStation` and `Samsung` are the
finders, `Plan` makes the spans disjoint, and `Write` is `WriteRegion` for data
before the region that grew or shrank.

## 3. What the runs check

All runs that must pass explore their whole state space. Deadlock is not checked:
every model ends when its bounded calls have ended.

| Run | Instance | Distinct states | Shows |
|---|---|---|---|
| `writefile_calls` | two files in two directories, one link that may dangle, two calls, one relink, one crash | 331 thousand | a file is whole at any time and after any crash; calls do not touch each other's temporary files; picture and mode stay; a link is replaced only by the call that could not resolve it; `AtomicReplace` is implemented |
| `metadata_scenes` | JPEG files with split, malformed and unmergeable XMP; a `Metadata` that goes through JPEG, PNG, WebP and HEIF; a TIFF and a JPEG with two writers; a streamed TIFF beside one that is read whole | 537 thousand | unmodified segments are carried, edits delivered, skipped or malformed segments never replaced; a copy takes every segment the container has a place for; the picture stays, unless a TIFF is laid out from an EXIF that does not describe it; a repeated write changes nothing |
| `jpeg_inject` | every file of up to three segments out of seven kinds, written once, and chosen longer ones, with resources cut over segments and with marker byte 0, written twice | 1.27 million | only metadata changes, in the right places; the reader finds what was written, unless the scan stopped before old metadata; other resources survive where the probe sees one, cut ones too, and an IPTC written with an XMP has its digest; a repeated call changes nothing |
| `extxmp_read` | three GUIDs, overlapping and empty stray chunks, two file sizes | 52 thousand | a merged document is the right one, a loss is reported, memory follows the file and not the declaration |
| `exif_roundtrip` | every shape of pointers between three directories; chains of four with thumbnails; classic and BigTIFF | 230 thousand | parsing ends within its budget, IFDs never share a slot, and the encoded value is read back with every pointer where it was planned |
| `tiff_extent` | three directories, values, MakerNote and thumbnail in any order and distance; documents of two and seven pages | 167 thousand | what was read is parsed like the whole file, the writer finds what it walks to, and the rounds end |
| `tiff_relocate` | blocks that follow, overlap and hold each other; three SubIFDs that lead to each other in every way; empty blocks outside the file; files at and beyond each limit, of blocks, arrays, chains, depth, budget, an offset, an element of type SHORT | 133 thousand | every planned offset that its element can say leads to the bytes of the source; a write that was planned fails only for a block outside the file; no byte is copied twice; nothing after the image is lost; a write ends |
| `containers` | nine to twelve files of each of four kinds, well formed and damaged; two writes | 10 thousand | the reader finds what was written, offsets lead where they led, headers agree with the chunks |
| `reconcile` | files whose copies agree, disagree or are missing; two settings, two writes, one by another program | 78 thousand | what was set is what is read, in all three forms; the other fields keep their values, where the text is declared and the IPTC is not the newer one |
| `iptc_latin` | the same instance | stops at the violation | see below |
| `xmp_edit` | fourteen packets with every RDF form, names with a dot and languages with a bar; two edits; one or two portions; two writes | 20 thousand | edits are in the packet, their neighbours and all other properties stay, the standard portion fits its segment |
| `trailer_write` | seventeen regions; three writes; growth of -3 to 2 | 6 thousand | the audio stays what its offsets name, copies of the IPTC are updated, no byte outside the trailers is lost |

The last lines of each configuration name the properties; each is stated in its module
with the code it is about.

The bounds, and why they are enough:

- `MaxCrashes = 1`, `MaxRelinks = 1`, two calls: a second crash acts on a state
  that is like an initial one, and the proofs cover any number of each.
- `MaxCalls = 5` in `MetadataWrite`: read, edit, write, write again or elsewhere,
  and one more call in between; `Finish` is not counted.
- Two calls at most in `JPEGInject`: whatever a call leaves in the plan or the file is
  seen by the next. `MaxDrops = 2` (65536 in the code) and `MaxRoom = 4` (a segment of 64 KiB)
  are small enough to be reached and large enough for ordinary files.
- `ExtendedXMP`: `MaxGuids = 2` and `MaxTotal = 5` are both exceeded by the chunks
  on offer; `FileSizes = {5, 23}`: with `Overhead = 4` bytes of each segment, one chunk of one
  byte fits, or so many that the linked document is there with chunks of others between, in any
  order. `LargeBlock = 4` is met by some first blocks and missed by others.
- `IFDWalk`: `MaxIFDs = 9` (512 in the code) is exceeded by
  traversals that share directories; `EntryFloor = 64` is exceeded by directories that declare
  more; `PointerMax = 400` is exceeded by the layout of some BigTIFF streams, which `Encode` refuses.
- `TIFFExtent`: `Initial = 6` cells and gaps of up to 40 make one to seven rounds;
  `MaxPasses = 7` is enough for every file on offer (see below for one where it is not);
  `Trigger`, `MinSaving` and `MergeGap` are each met and missed.
- `TIFFRelocate`: `Budget = 22`, `BlocksMax = 20` (65536 in the code), `ArrayMax = 2` (1024),
  `ChainMax = 2` (512), `MaxDepth = 2`, `MaxOffset = 24` and `ShortMax = 12` are each met by some
  files and exceeded by others; `Cost = 2` makes a SubIFD dearer than a block.
- `ContainerWrite`: `MaxWrites = 2`, since a write reads only the file and the `Metadata`;
  `MaxRIFF = 110`, `MaxFour = 180` and `MaxID = 7` are reached by one file each.
- `Reconcile`: `Limit = 3` cuts the longest texts; two settings let one field be set after
  another, two writes let another program edit between them.
- `XMPPacket`: `KeyBudget = 5` is exceeded by one packet; `Limits = {2, 10}`: the
  first is below the link itself, so a split is refused; the second splits some packets.
- `Trailer`: `MaxSignatures = 3` is met and `MaxCandidates = 1` exceeded, `MaxOffset = 24` refuses
  the growth of the longest region.

### Fairness

`IFDEncode`, `TIFFExtent` and `TIFFRelocate` assume weak fairness of the steps of a running
call: `Parse`, `Encode`, `Read` and `Write` are run by one goroutine that waits for nothing,
so as long as a step is possible one is taken. The edit by the caller (`Encode(e)` begins
with it) is not fair: a caller may never write. Under it

- `Terminates`: `Parse` of any graph of pointers comes to an end, and so do `Encode` and
  the parse of what it wrote;
- `Ends`: the rounds of the prefix, with cycles and far structures, come to an end;
- `Written`: a write of a TIFF ends, and it is refused only for what the source
  holds (`Affordable`: too many blocks or SubIFDs in an entry or in all, a block outside the
  file, an empty one too, SubIFDs beyond what an offset can say), not for the ways that lead
  there.

The other specifications state no fairness, and no liveness property is claimed of
them: their loops advance through a finite list at every step, and in `WriteFile` a
call may stop for ever (a crash).

### Disagreements between the code and what it says

`iptc_latin` checks a statement of the repository and finds it violated: an IPTC that
declares no character set is in ISO 8859-1; `Encode` declares UTF-8 as soon as a value
has a byte above 127 and writes the bytes as they were, so that text nobody edited is
read as something else. `PROJECT.json` quotes the statements.

More configurations check what the repository says where the code does not keep it. They are
not in the list of runs; `tlc -config <cfg> <MC module>` finds a counterexample for each. The runs
include these cases, the sizes of a second JPEG apart: the property of the run next to each states
exactly what the code keeps there.

| Configuration | Property | What happens | What holds instead, in the run |
|---|---|---|---|
| `WriteFile_link.cfg` | `LinkNeverReplaced` | after any error of `EvalSymlinks` the call goes on with the path (`write.go:289-293`); when `os.Open` then succeeds, the rename replaces the link by a regular file; `write.go:287`: "WriteFile must not replace a symlink with a regular file" | `LinkSurvives`: only by the call that was given the link and could not resolve it |
| `MetadataWrite_twice.cfg` | `PictureOwn` | a second `WriteFile` of the same `Metadata` copies the image data of a large TIFF from the offsets of the old layout (`write.go:478`, `format/tiff/relocate_stream.go:375`); `doc.go:108`: "The metadata and the image data are preserved" | `PixelsKept`: the picture stays unless a TIFF is laid out from an EXIF that describes no image data, another picture, or a layout that is gone (`Misplaced`) |
| `MetadataWrite_copy.cfg` | `PictureOwn` | the metadata of a TIFF that was streamed, written to another TIFF, take bytes of that one at the offsets of the first; `doc.go:86-88` says that `Read` and `Write` copy metadata from one image to another | the same |
| `MetadataWrite_sizes.cfg` | `SizeOwn` | `fillPixelSize` puts the dimensions of the first JPEG into `m.EXIF` (`write.go:797`), and a second `Write` to another JPEG keeps them; `write.go:783-786`: "records the pixel dimensions of the JPEG r" | no property of the run speaks of sizes; `Filled` is part of `Finish` |
| `JPEGInject_cut.cfg` | `SiblingsKept` | `probeIRBHasSiblings` looks at each APP13 alone (`jpeg.go:1206`), so that a resource cut over two segments, where no segment holds a whole one, is dropped when IPTC is written; `jpeg.go:1408`: "Inject preserves all sibling resources verbatim" | `ResourcesKept`: no resource is lost where the probe sees one in any segment or no IPTC is written |
| `JPEGInject_digest.cfg` | `DigestFollows` | `emit` asks for a digest when an XMP is put in (`splice.go:160`), not when one is kept; `irb.go:382`: "written now or present already" | `ResourcesKept`: an IPTC written together with an XMP has its digest |
| `JPEGInject_odd.cfg` | `Replaced` | the scan stops at a marker byte 0 (`splice.go:335`), the reader goes on (`jpeg.go:1600-1640`): metadata behind it are neither removed nor replaced, and still read; `jpeg.go:1449-1451` | `ReadsBack`: of the sources in which no metadata follow such a segment (`Plain`) |
| `ContainerWrite_carry.cfg` | `CarriedKept` | the raw EXIF of a CR3 is CMT1 alone (`cr3.go:331-375`), so that a write of the XMP alone drops CMT2 and CMT4 (`cr3.go:721-727`); `write_plan.go:39-40`: "the others are written from the raw bytes Read kept, which equal the source's" | `ReadsBack`: of an EXIF that is carried into a CR3 the IFD0 is read as before |
| `XMP_dots.cfg` | `AllKept` | a struct `Of` with a field `id` and a property named `Of.id` share a key; the text of the field goes to the property, though nothing was edited (`serialize.go:154-157`); `xmp.go:233-237`: "written exactly as parsed" | `RestKept`: as long as each key is of one property (`KeysApart`) |
| `Reconcile_stale.cfg` | `ElevatedKept` | in a JPEG whose digest says that the IPTC is newer, a setter of one field and a write renew the digest, and the other fields are read from the older EXIF and XMP again (`reconcile.go:110`) | `SetIsRead` of the field that was set; `OthersKept` of files whose IPTC is not the newer one |
| `TIFFRelocate_said.cfg` | `AllLead` | an offset that is more than a SHORT can say is cut to 16 bits (`relocate.go:1218-1227`); `relocate.go:1221`: "caller guarantees v fits SHORT" | `Relocated`: each offset that its element can say (`Sayable`) leads to its block, unless the layout has run past the largest offset (`Placed`) |

Met while modelling, and not in a configuration:

- a packet read with `WithoutXMP` loses its extended XMP in a WebP and keeps the link;
- `NewMetadata` with an assigned EXIF, written to a TIFF, writes no image data
  (`format/tiff/relocate.go:493`; `metadata.go:15-20` and `doc.go:108` say otherwise; `NoImageData` in
  the model), and the EXIF of a large TIFF that was read `WithoutEXIF` does not reach another TIFF;
- an edit of `m.EXIF` that was not marked reaches a TIFF all the same (`write.go:538`;
  `metadata.go:259-261`);
- a GUID whose first chunk declares too much is read when a later chunk declares less
  (`extacc.go:150`; `extacc.go:124`);
- when the rounds are used up, `format/tiff/extent.go:610-614` expects the caller to compare the
  length of the buffer with the need and to fall back to the whole file; `tiff.go:232-262` uses the
  buffer as it is, so a document with more pages than rounds is read with its first pages only;
- `heif/stream.go:244` says that every absolute offset beyond the meta box moves;
  `inject.go:651-675` leaves the `iloc` of a meta box inside a `trak` as it is;
- `ErrImageBlockOverflow` (`format/tiff/errors.go`) is not returned by the relocation of a classic
  TIFF: an offset beyond 4 GiB becomes the largest one (`relocate.go:1069-1098`).

## 4. What is proved

TLAPS proves these for every number of files, links, metadata values, goroutines, calls,
crashes, chunks, segments, image resources, directories, pointers, image blocks and bytes.

| Theorem | Module | Property | Under |
|---|---|---|---|
| `TypeCorrect` | `WriteFileProofs` | `TypeOK` | |
| `TargetAlwaysWhole` | `WriteFileProofs` | `TargetWhole` | |
| `OwnTempAlwaysOnly` | `WriteFileProofs` | `OwnTempOnly` | |
| `PictureAlwaysStays` | `WriteFileProofs` | `PictureStays` | |
| `ModeAlwaysKept` | `WriteFileProofs` | `ModeKept` | |
| `LinkAlwaysSurvives` | `WriteFileProofs` | `LinkSurvives` | |
| `Implements` | `WriteFileProofs` | `Replaces` | |
| `Consistent` | `MetadataWriteProofs` | `Inv` | |
| `EditsDelivered` | `MetadataWriteProofs` | `Delivered`, one half of `OnlyEdits` | |
| `OnlyEditsWritten` | `MetadataWriteProofs` | `OnlyEdits` | `SettersOnly` |
| `OpaqueStays` | `MetadataWriteProofs` | `OpaqueKept` | `WholeReads` |
| `CopiesHold` | `MetadataWriteProofs` | `Copies` | `WholeReads` |
| `LinksHold` | `MetadataWriteProofs` | `LinkHolds` | `LinkScenes` |
| `PixelsStay` | `MetadataWriteProofs` | `PixelsKept` | |
| `RepeatsChangeNothing` | `MetadataWriteProofs` | `Idempotent` | |
| `LimitsHold` | `ExtendedXMPProofs` | `WithinLimits` | |
| `MemoryBounded` | `ExtendedXMPProofs` | `NotMoreThanFile` | |
| `MergedOnly` | `ExtendedXMPProofs` | `Merged` | |
| `LossReported` | `ExtendedXMPProofs` | `NothingLostSilently` | |
| `WorkStaysBounded` | `IFDEncodeProofs` | `WorkBounded` | |
| `ArenaStaysApart` | `IFDEncodeProofs` | `ArenaShared` | |
| `SizeStaysTold` | `IFDEncodeProofs` | `SizeTold`, one half of `RoundTrip` | |
| `RestIsCopied` | `JPEGInjectProofs` | `RestCopied` | |
| `OrderStays` | `JPEGInjectProofs` | `OrderKept` | |
| `WritesRead` | `JPEGInjectProofs` | `ReadsBack` | |
| `ResourcesStay` | `JPEGInjectProofs` | `ResourcesKept` | |
| `RelocatedHolds` | `TIFFRelocateProofs` | `Relocated` | |

So every property that the runs check of `WriteFile`, `MetadataWrite` and `ExtendedXMP` is
also a theorem, of `JPEGInject` all but `Idempotent`, of `TIFFRelocate` all but the liveness
`Written`, and of `IFDEncode` all but `ReadBack` and `Terminates`.

`Lists` holds the lemmas that the proof modules of `ExtendedXMP`, `IFDEncode`, `JPEGInject` and `TIFFRelocate` share: sequences whose elements
are anything (`IsList`), functions defined by recursion (`UpTo`, `Recursion`), and `FlattenSeq`.

### Assumptions

The names of files, links and temporary files differ, and a path names a file or a link
(`DistinctNames`, `PathAssumption`, `NoFileAssumption`). `ExtendedXMP` assumes that sizes
are natural numbers, that the GUIDs are finitely many, and that a chunk of other software
is at most as long as a segment. `MetadataWrite` assumes that each scene names known
files and segments, and that `None` is none of their contents. `IFDWalk` assumes of a stream
its shape only (`SourceAssumption`: a directory has a number of entries, the sizes of its
values, and any pointers at all), and `IFDEncode` that edits are among those it has.
`JPEGInject` assumes of a file that it is a sequence whose Photoshop segments hold sequences of
resources, and of a call what its XMP can be: a keep frame names another GUID than that of its own
contents, and a wire or keep frame names one (`CallAssumption`). A file may have any
segments in any order, with resources cut anywhere. `TIFFRelocate` assumes of a file its shape only
(`RelocateAssumption`, `IsSource`): an IFD has lists of blocks and of pointers to SubIFDs, which may be
in the file or not, overlap, and lead anywhere; that `exif.Parse` gives no more IFDs of a chain than
`ChainMax`; and that a SubIFD is charged at least one.

The theorems with a last column have a hypothesis, since the property fails without one. TLC
checks in `MCMetadataWrite` that its worlds meet those of `MetadataWrite`
(`CoveredByTheorems`).

- `SettersOnly`: where there is a TIFF, its EXIF is changed by setters only. `writeTIFF` lays
  out its IFDs from `m.EXIF` whether it is marked or not (`write.go:538`).
- `WholeReads`: `WithoutEXIF` is not used where a TIFF is streamed. `writeTIFF` then copies
  the image it is given with the IFDs that image has.
- `LinkScenes`: all files are JPEG, or the XMP is never skipped. The raw XMP of a JPEG that was
  read `WithoutXMP` keeps its link when it goes to a container without extended XMP.

The other theorems have none. Where the code keeps less than its documentation says, the
condition is part of the property, step by step, and not of the theorem or the files: a world may
hold streamed TIFFs, a link may dangle, and a JPEG may have resources cut anywhere and segments
with marker byte 0; what `PixelsKept`, `LinkSurvives`, `ReadsBack`, `ResourcesKept` and `Relocated` ask
of the other steps and files is proved of these worlds too.

### The argument for `WriteFile`

`TargetWhole` is not inductive: it says nothing of the temporary file that the next
rename will publish. `IInv` adds

- `NamesInv`: every entry a file may have is *published*, that is, complete, synced, and
  no longer written by a running call (`Pub`);
- `OwnInv`: the temporary name of a running call leads to that call's own inode, so a
  rename publishes what the call wrote;
- `SourceInv`: what a call reads is published, so its copy is complete;
- `DataInv`: a call reaches the rename with complete and synced data.

`PubStep` is the heart: what is published stays so, even in a crash.
`LInv` adds `ResolvedInv` (a call whose path is still a link was given this link, and could not
resolve it or finds it replaced; a link that is there stays in any crash), `LineageInv` (all a
file may hold is a version of its own picture with its own mode) and `OpenedInv` (what
a call builds is what it opened plus its edit); `FrozenStep` shows that published
data and modes never change. The refinement needs `ErrInv` besides: a call that cleans
up is returning an error. It then has one lemma per step of `AtomicReplace`.

### The argument for `MetadataWrite`

`Inv` types every image, every `Metadata` and every write in progress, and is what all
others rest on. The edits that were due (`Delivered`) and the repetition (`Idempotent`)
need no more than it, except that `SettledInv` says what a finished write left: an image
that the same write leaves as it is (`Fixed`).

Every other property speaks of a write that compares, encodes and injects what was
read some calls ago, so that its invariant is about what a `Metadata` may *be* from the
moment it is read: `HeldIn(S)` says that every `Metadata`, and the copy of it that a write in
progress took, is in `S`. `Closed` proves once, for any `S`, that it is enough to look at what
`Read`, the setters, `MarkModified`, a direct edit and an assignment make. `Loaded`
(a TIFF whose EXIF is raw and not parsed is opaque and whole), `Marked` (an EXIF that is not
marked is the raw one) and `Unlinked` are such sets. `LinkHolds` needs its counterpart
for what files hold too (`Linkless`, closed under what `Finish` writes), since what is written
comes from a `Metadata`, and that came from an image. `PixelsKept` is about one step: of each way
`Finish` lays a TIFF out, what is not `Misplaced` takes the image data of the image it is given.

### The argument for `ExtendedXMP`

`Inv` types the sizes next to the limits, and `SeenGrows` bounds the number of GUIDs
when one is added. `MemoryInv` follows the block of each GUID from empty (`Empty`) through
the first (`OneBlock`), which is no larger than the file and the room for a frame, to those that
grow with what arrives (`Blocks`).

`Merged` is about what `assemble` makes of chunks that came in any order. `DocumentInv`
relates the list of stored chunks to those that arrived (`Listed`, `Traced`: as long as
nothing was cut they are the same). The proof takes any order the sort may leave (`SortedIs`: each chunk
once, by offset). `JoinedFlatten` shows that chunks that follow one another give back the document
they were cut from, and `ChunksPutTogether` that the chunks of a document, each of which came once,
do follow one another in every such order. It is a proof by
induction over data: it takes the least place where the two would differ
(`NatLeast`), since the induction theorems of the library, which take an operator as
a parameter, cannot be instantiated by the provers here.

### The argument for `JPEGInject`

`Inv` follows the plan from the scan into the write. `ScanInv`: at each segment the plan has the
first of each kind, the first that is dropped, the end of the leading ones (`PlanTo`) and, as runs that
do not touch, exactly the segments that are dropped (`RunsOK`). `WriteInv`: the runs that are left
are those behind `cursor`, and what is still to be put in goes behind it too, or into a gap of dropped
segments, so that the write never turns back; this is what makes the order of `emitOps` matter.
`Shape` is what is left of a plan when it is recycled, and enough for `TypeOK`.

- `CopyInv` gives `RestCopied`: what stays of the output is what stays of the source up to `cursor`. None
  of the segments put in stays, since what is kept is not put in (`Effective`).
- `OrderInv` gives `OrderKept`: as long as a kind is not put in, none of it is in the output, and once
  it is, as many segments that stay are before it as were before the old one (`PlaceOK`); the leading
  segments come out first (`LeadOK`); an APP1 before the EXIF that is put in would have been before it
  in the source (`EXIFOK`, `Ahead`).
- `PartsInv` gives the new half of the output: the segments of a kind that do not stay are, in order,
  those of `Block`. With `CopyInv` this determines what a reader finds of each kind, whatever is in
  between (`IsDone`), of a source that is `Plain`; nothing is asked of it for the other three.

`ReadsBack` and `ResourcesKept` are then about lists of one kind: `ReadPlain` reduces `Readable`
to the part the scan read, `XMPAfter` is the XMP with its extension by the form it has, and
`IsSpliced` says what `Splice` leaves of each resource, after `Join` has put together those
that were cut. `FlattenSeq` and the choice of elements are recursive functions, and are unfolded
as the sums below are.

### The argument for `IFDWalk` and `IFDEncode`

`WalkInv` is kept by every step of `Parse` from any stream that has the shape of one
(`ParseStep`). The two properties are the easy parts of it:

- `Charged`: what is spent and what is left of the budget are together what there was, and
  only the last directory parsed may have gone beyond it. Cycles and shared directories do
  not matter, since each visit is charged.
- `ThumbsOK`: the thumbnails of the chain that is read, and after it of the chain that was
  read, and what is left of their budget, are together no more than the stream. The
  thumbnail of IFD0 is not charged, and not counted.
- `Given`: every slot and every entry of an IFD was given out by the arena (`Below`), so that the
  next one given is none of them; `Separate` follows. The arena is set up when the Exif
  IFD is next, and empties what was given before: `TodoOK` says that no IFD but those of
  the chain, which use none, has been read by then. `AllocIs` is the reason why counts that
  change between the look and the reading do no harm: room that does not suffice is
  not used at all.

`EncodeInv` adds `OutOK` and `Sized`, the length announced next to the length written. Each step
is about one block: `EndOf` is where it ends when it is written somewhere, and `PutIs`,
`ThumbWritten` and `ChainWritten` show that the output ends where `PlanChain` says, over all
combinations of thumbnails, strips, IFDs of its own and padding; `ChainLenIs` that the
shorter way to the length, which does not plan, gives the same. `WrittenIs` closes the circle: what
was written has the shape of a stream, so that the parse of it begins in `WalkInv` again, and
the theorems hold of both parses.

The sizes are sums over lists, that is, recursive functions. `UpTo` is induction on the
numbers up to n for one set, and `Recursion` says that a function exists that begins with
a value and follows a given rule; every sum of the model is unfolded with these two.

### The argument for `TIFFRelocate`

`Inv` has a part for each phase.

- While the SubIFDs are walked (`WalkOK`): each frame of the stack knows which elements of its array are
  done (`ArrayOK`) or which end of its chain is followed (`ChainOK`), and every list of pointers and
  every next pointer that is not on the stack is finished (`DoneOK`): each leads to the carried
  SubIFD it led to in the source, or to nothing because there was nothing to carry (`KidOK`). What is
  carried only grows (`Grows`), so what was finished stays so while the walk goes deeper or comes
  back. `ElementStep`, `FollowStep` and `ArrayStep` are the three ways on; a SubIFD that two
  pointers lead to needs `Lookup` to find it (`LookupIs`).
- The layout (`PiecesFit`, `PlacesFit`, `PlacesAre`) is about the source alone. Each block is in a piece, and two
  pieces have no byte in common: a range is bounded by places that no block reaches over
  (`IsLow`, `IsHigh`), which exist since the file ends somewhere, and two ranges that share a byte
  have the same bounds (`PiecesApart`).
- While the output is written, `OutOK` says that the first n pieces are each where they were planned, and that
  nothing else stands behind the SubIFDs; `HeaderIs` follows the same pads when SubIFDs are
  placed and when they are written, so that `errRelocateLayout` is never met, and a planned write is
  refused for `Contained` alone. Layout and output
  are worked out from variables that no longer change (`LayoutSame`, `OutSame`).

When the write is done (`OutIs`), `BlockLeads` finds a block through its piece, `KidIsLed` a SubIFD through its
place, and `OneCell` shows that two cells of the output that hold the same byte are one: IFDs
are made anew, pieces are apart, and the tail begins behind all blocks (`TailStartIs`).

### What stays with TLC

`TypeCorrect` and `Consistent` are in no run: with the theorem a check on a small
instance adds nothing.

`Idempotent` of `JPEGInject` says that the whole output of a repeated call is the same. The theorems
say what its metadata are, and that they and the rest are each in order; that the two also
alternate the same way needs the plan of the second call from the output of the first.

Only model-checked are the properties of the modules without a proof module. Out of
the prover's reach altogether: liveness under fairness (`Terminates`, `Ends`, `Written`),
`ENABLED`, and the properties of `XMPPacket`, whose trees are read and written by `RECURSIVE`
operators. Those of the containers, `Reconcile` and `Trailer` are about what folds over sequences
compute, which would need an induction like those above for each fold. `AsWholeFile` of `TIFFExtent`
compares two parses, one of them of a compacted stream. `ReadBack` says that the
second parse finds every IFD in the order and role of the first: its invariant would follow two
traversals, of the source and of the output, side by side.

## 5. What is not modelled

- `WriteFile`: `chownFile` (best effort, no property depends on it) and the Windows variant.
- `MetadataWrite`: the `Strict` option, external offsets of
  Olympus maker notes, the IPTC digest (it is in `JPEGInject` and `Reconcile`), and the raw formats
  apart from TIFF. A streamed write whose offsets lie outside the image is refused by the code; the
  model says that the picture is lost. Every JPEG has a frame header, and every EXIF that was read has
  an Exif IFD. `writeTIFF` reads parsed values without the lock; the model takes what it
  reads to be the state at `Finish`.
- `JPEGInject`: an EXIF too large for a segment, fill bytes between segments, an empty
  0x0404 resource that a later one replaces, and a parse failure while extended XMP is
  merged. Trailers are in `Trailer` alone.
- `ExtendedXMP`: a source that cannot seek.
- `IFDWalk`, `IFDEncode`: the values of tags, MakerNotes and private IFDs. A
  JPEGInterchangeFormat that addresses nothing is written as it is, and may address other
  bytes after growth; the size announced for a BigTIFF may refuse what `Encode` could write.
- `TIFFExtent`: the IPTC and XMP that are taken from IFD0.
- `TIFFRelocate`: `relocate_arw.go`, `_nef`, `_orf`, `_rw2`, CR2 and BigTIFF, which add blocks
  of their own to the same plan; `ErrSubIFDCountMismatch`, entries outside the prefix, Olympus
  external offsets, the rebase of MakerNotes; the refusal of a sparse stream whose output is too
  large (`inject_stream.go:91`). Strips whose counts do not pair are neither
  carried nor patched, in the code and in the model.
- `PNGFile`: compression and the budget of raw profiles. An EXIF of a raw profile stays when a
  PNG is written without EXIF, and an XMP in a tEXt or zTXt that comes first wins on read; both
  are in the model.
- `WebPFile`: bitstreams beyond whether their size can be read. Stray bytes at the end
  are an error to `Extract` and dropped by `Inject`; a VP8X followed by an unknown chunk is made
  anew and loses its animation flag.
- `HEIFFile`: fragmented files and the construction methods the code refuses. All Exif items
  get the new payload, and a file grows by one mdat per write.
- `CR3File`: the CTBO box, whose offsets the code leaves as they are, previews, and CMT3.
- `Reconcile`: fields that are set and read like one that is modelled, GPS, locations;
  `OthersKept` does not cover a file whose digest says that the IPTC is newer (see
  `Reconcile_stale.cfg`). Years outside
  0 to 9999, NUL bytes, empty keywords, "|" in creators and UTF-8 of three or four bytes are
  left out; the digest rule is that of a JPEG.
  Of the IPTC codec: extended datasets, and single-byte sets other than ISO 8859-1.
- `XMPPacket`: `rdf:nodeID`, prefixes, the attributes of the packet, XML scanning,
  escaping and padding. A name with a dot is one of a simple value or of an array of them. Some behaviours bound what `OnlyEdits` can say: a key of a structured
  field or beyond the budget adds a duplicate that the parser drops (`serialize.go:430-480`);
  removing the last key of a property removes its parts without keys; the items of an
  array close up behind one that is removed.
- `Trailer`: the search in the tail of a TIFF (`tail.go`), the limit of 16 MiB, read errors. An
  AFCP inside the rigid part of a Samsung trailer is copied with stale offsets, and the bytes
  between the data of an AFCP and its end go when it is rewritten.
- One hazard has no property: the ownership of pooled buffers (`internal/iobuf/iobuf.go:88`),
  which is spread over every caller; the recycled splice plan and the arena of a parse are
  modelled where they are used. `writeTIFF` clones `m.EXIF` without the lock (`write.go:538`), which
  `metadata.go:57-59` leaves to the caller.
- MakerNote editing, format detection, tag tables, formatting and parsing of single values:
  data, or functions without state, which the unit and fuzz tests of the repository reach.
- Tests, tools, examples and generated tables are not part of the library.

## 6. Plan

Done: the modules of section 2. What is left, in the order of its use:

1. Proofs. `Idempotent` of `JPEGInject`, from an invariant of `EmitOffset` over the output; the
   bound of the buffer in `TIFFExtent`.
2. `TIFFRelocate`: the raw formats, each as more groups of blocks, and MakerNote rebasing.
3. `Trailer` in the tail of a TIFF, and with `JPEGInject`.
4. Format detection: the order of the magic tests.

Modules meant for proofs use recursive functions or folds, no `RECURSIVE` operators.
