# Verification of isomage

isomage is a Rust library that reads disc images, disk images and archives without
mounting them.  A parser turns an image into a tree of `TreeNode`s; `cat_node` and
`extract_node` copy the bytes of a node, or of a whole subtree, out of the image.
This directory holds TLA+ modules translated from that code, TLC configurations
that check them on small instances, and proofs checked by TLAPS.  `PROJECT.json`
lists the runs, the mutants that show each property can fail, the source lines of
every definition, the hazards and the theorems.

Run, inside this directory: `tlc -workers 2 -config X.cfg MCX.tla` for a run, and
`tlapm XProofs.tla` (and `tlapm Lemmas.tla`) for the proofs; that of
`ImagesProofs` takes about twenty minutes, the others a few each.

## Inventory

Everything in the library is a function of one thread over a reader (`Read` and
`Seek`): there is no shared state between calls, no lock and no callback.  What
makes it hard is what comes from outside: the image may hold anything (circular
and dangling references, counts that do not fit, names of any kind), every read,
seek and write may fail or move fewer bytes than asked for, the output may be
closed or full, and the host directory may already have entries in it.  One parser
also depends on the iteration order of a hash map.

| Component | State it keeps | Operations | What is hard | What makes it correct |
|---|---|---|---|---|
| `TreeNode` (tree.rs) | name, kind, children, byte range | build, `find_node`, directory sizes | duplicate names, names with separators | a path finds the node it names or nothing |
| `cat_node` (lib.rs) | reader's cursor, bytes remaining, chunk buffer | seek, read and write in chunks | partial writes, closed pipe, end of the image in a chunk | the writer has a prefix of the file; all of it on `Ok` unless the pipe closed |
| `extract_node` (lib.rs) | host directory, recursion, copy loop | make directories, create files, copy | unsafe names, collisions, failure half-way | nothing outside the output directory; only the last file incomplete |
| Detection (lib.rs) | cursor, list of errors | try ISO 9660, rewind, try UDF | state left by a failed attempt | the second parser sees the image from its start |
| ISO 9660 (iso9660.rs) | descriptors found, extension in use | scan descriptors, parse directories | Joliet/Rock Ridge choice, records across sectors, recursion | each record once, under its best name |
| UDF (udf.rs) | descriptor sequence, partition maps | anchor search, allocation descriptors, directories | several extents, metadata partition, sub-directory errors | the range of a file is its data |
| FAT (fat.rs) | geometry, chain, pending long name | boot sector, FAT walk, directories | circular chains, stale long-name pieces | a located file is its chain; directories are complete |
| ext2/3/4 (ext.rs) | superblock, inodes | indirect blocks, extents, directories | holes, order of blocks | the range of a file is its blocks in order |
| HFS+ (hfsplus.rs) | catalog records, placeholders | leaf walk, tree from CNIDs | map order, orphans, cycles | every folder of a healthy volume is in the tree |
| NTFS (ntfs.rs) | MFT records | fix-ups, attributes, run lists, tree | several `$DATA`, sparse runs, parents | the range of a file is its unnamed stream |
| SquashFS (squashfs.rs) | metadata position | metadata blocks, inodes, directories | block boundaries, fragments | a directory lists its entries |
| TAR reader (tar.rs) | position, pending overrides, entries, nodes | scan, build tree | overrides, data that looks like headers, clashing names | entries in order with their data; the last one wins |
| TAR writer (tar.rs) | output | header, data, padding, trailer | output failing half-way | what is written is read back |
| ZIP (zip.rs) | end record, central directory | search, list, write stored | comment search, counts of 65535, clashing and odd names, two statements about encryption | what is written is read back; a location is that of plain data |
| MBR, GPT, raw (mbr.rs, gpt.rs, raw.rs) | partition entries | read a table, fall through | protective MBR, length overflow | a partition is its LBA range |
| VHD, QCOW2, VMDK, WIM, DMG, APFS | header | read a header, list the parts | counts from the header | detection restores the cursor |
| Memory map (image_io) | map, cursor | read, seek | seeks past the end, overflow | the contract of `Read` and `Seek` |
| SIMD checksum (simd) | none | CRC of bytes | - | computes the CRC |

The parsers hand a tree to `cat_node` and `extract_node` and nothing else; the
byte range of a node is the whole contract between them.  So the parsers are
modelled each against what the format means, and the two copies against any tree a
parser may have built, also with ranges outside the image and with names no parser
should let through.  HFS+, FAT, ext, TAR and ZIP have a specification each, with
one step per iteration of their loops; the others share one (`Images`), as they
share the tree, the cursor and the way they end.

## Modules

| Module | Models | State and actions |
|---|---|---|
| `ImageRange` | the bytes of an image, by offset | `Span` is the range a read delivers |
| `Stream` | what a copy promises | an abstract copy: deliver more of the range, finish, give up |
| `CopyLoop` | what the loops of `cat_node` and `extract_file_at` share | the parameters, the reader's cursor and the chunk in flight |
| `CatNode` | `cat_node` | one action per call of the reader or writer: `Read` is one `read` in `read_exact`, `Write` one `write` in `write_all`, each of any size |
| `Extract` | `extract_node`, `extract_into`, `extract_file_at`, `safe_join`, `validate_entry_name` | the recursion is the work list `todo`; the host is a function from paths to entries; one action per directory, file, chunk, and per kind of failure |
| `CopyProofs` | - | theorems about `CatNode` and `Extract` |
| `HfsLeaves` | `ForkData`, `CatalogRecord`, `VolumeHeader`, `read_catalog_leaf_records`, `parse_leaf_node_records` | one action per header and per leaf node, and per way to fail |
| `HfsTree` | `build_tree` with `cnid_path` and `find_by_path_mut`; `detect_and_parse` of hfsplus.rs | one action per folder visited, per pass, per file; the order of the hash map is chosen in `Index`; its last section composes the two |
| `TarFormat` | the blocks of an archive | - |
| `TarReader` | `detect`, `scan_entries`, `build_tree` of tar.rs | one action per iteration of the scan (by kind of block) and per entry built |
| `TarWriter` | `write`, `write_entry` | one action per block written; the output may fail at each |
| `TarRoundTrip` | the writer, then the reader on what it left, or the reader on the archive of another program | composes the two |
| `ZipFormat` | the bytes of an archive: each is the record that begins with it, or none | - |
| `ZipReader` | `find_eocd`, `parse_central_directory`, `local_data_offset`, `build_tree` of zip.rs | one action per read of the search, per record of the directory, per entry built, and per way to fail |
| `ZipWriter` | `write_stored` | one action per record or data written; the output may fail at each byte |
| `ZipRoundTrip` | as `TarRoundTrip` | composes the two |
| `FatVolume` | fat.rs | one action per FAT entry followed, per directory listed, per entry; the recursion is a stack |
| `ExtPointers` | `collect_classical_blocks` of ext.rs; the data of an inode, which the three modules on ext share | one action per block collected, per pointer block entered and per way the loops break |
| `ExtExtents` | `collect_extents`, `single_run_location` of ext.rs | one action per node of the extent tree; the recursion is a stack |
| `ExtVolume` | superblock, descriptors, inodes and `build_tree` of ext.rs | one action per entry of a directory; the recursion is a stack |
| `ParsedTree` | tree.rs; how a parser lists a directory and returns | `nodes` is the tree, a node naming its parent; `stack` the calls, a frame per directory with what is left of it; `found` what a format has read on the way; its section on image_io/mmap.rs has the reads of a mapped file and the cursor a `detect` puts back |
| `IsoReader` | iso9660.rs | one action per volume descriptor, per record of a directory, per way to fail |
| `UdfReader` | udf.rs | one action for recognition and anchor, per volume descriptor, for the root, per identifier |
| `NtfsReader` | ntfs.rs | detection, one action per record of the MFT and per child of a directory |
| `SquashReader` | squashfs.rs | detection, superblock, one action per entry of a directory, per way to fail |
| `PartitionTables` | gpt.rs, mbr.rs, raw.rs | one action per table tried and its outcome |
| `Containers` | vhd.rs, qcow2.rs, vmdk.rs, wim.rs, dmg.rs, apfs.rs | detection, then headers that are accepted or refused; what a format lists is an operator of its own |
| `Images` | `detect_and_parse_filesystem`: ISO 9660, then UDF; the other readers by their own entry points | composes the six |
| `HfsProofs`, `FatVolumeProofs`, `TarProofs`, `ZipProofs` | - | theorems about `HfsTree`, `FatVolume`, `TarRoundTrip`, `ZipRoundTrip` and what they are made of |
| `ExtProofs` | - | theorems about `ExtPointers`, `ExtExtents` and `ExtVolume` |
| `ImagesProofs` | - | theorems about `Images` and the readers it composes |
| `Lemmas` | - | induction over numbers, functions defined by recursion, sums, filtered lists, ranges of the image, trees that grow directory by directory: what the proofs share |

The `MC` modules give the constants their values and define the small inputs.

## What the runs check and show

* **Copies** - one call of `cat_node` or of `extract_node`, while the other is at
  rest, with a chunk of 3 bytes and an image of 9.  `cat_node` copies files of 0
  to 7 bytes: two chunks and a rest, two chunks exactly, less than one, an empty
  one, one that leaves the image and ones without a location or a length all
  occur, so every branch of the loop is taken under every split of reads and
  writes.  The reader stays in the file's range, and the loop implements `Stream`:
  the writer has a prefix of the file at every moment, and all of it when the call
  returns `Ok` and the pipe was not closed.  `extract_node` takes trees of up to
  six nodes with names that clash, are empty, `.` or `..`, or hold a separator, to
  hosts that are empty or hold files and directories in the way.  Nothing outside
  the output directory is touched, only entries the tree names appear, only the
  last file opened can be incomplete, and `Ok` means that the host mirrors the
  tree.
* **HfsVolume** - catalogs of up to four folders, healthy (chains, branches) and
  not (own parent, cycle, orphans, equal names, two records of one folder, records
  that are cut off), under every order of the hash map; leaf nodes in any order,
  linked in a circle, out of the catalog and out of the image; headers that do not
  fit; a catalog in two pieces; forks that are empty, in one run, in two, or in
  more than the record has room for.  A healthy catalog is listed from its first
  record to its last, a location is that of a fork in one run, a folder is never
  in two places, the top level is always complete, a file of a healthy volume is
  present just when the folders above it are, and it is always in the right one.
  Three nodes and two extents are enough for every step of the loops to be taken
  twice.  **HfsNested** shows what does not hold: a nested folder is lost when its
  parent is attached first (hfsplus.rs:689).
* **TarRoundTrip** - up to three members with data that is zeros or looks like a
  header, the output failing at any block; and every archive of up to four blocks
  out of thirteen, which is enough for an override, its payload, another header
  between and the entry.  What was written is read back in order, with its data;
  overrides reach the next entry only, entries do not overlap unless a PAX size
  says so, and the last entry of a name wins.  **TarPaxSize**: the size of a PAX
  header is not what is skipped (tar.rs:268), against the documentation.
* **FatVolume** - every FAT of three clusters under a file and under a directory
  (every cycle, end mark, bad mark and out-of-range value occurs), names in one
  and two pieces, stray pieces, and a FAT32 volume whose directories contain
  themselves.  A file is located just when its chain is whole, in one run and long
  enough, and then it is its chain's bytes; directories are complete.  Every call
  comes to an end: on a circular chain it is the count of the clusters collected
  that stops it (fat.rs:173; the mutant counts a cluster once), in a directory
  that contains itself the depth limit (fat.rs:475).
* **ExtVolume** checks the three modules on ext together.  Pointers: two direct
  pointers and pointer blocks of two, so that the single, double and triple tree
  are all entered, up to two data blocks missing and one pointer block missing or
  unreadable, for every size.  Blocks come in the file's order, none before the
  first gap is lost, a gap costs only the rest of what shares its table.  Extents:
  files of up to two extents, with holes and unwritten parts, under trees of up to
  three levels (the limit is two), whole, damaged and circular, and every triple
  of direct pointers.  A location is given only when the file's data begins there
  and is in one run.  The longest length is 4, which has the bit for unwritten
  extents set as 32768 has.  Volumes: every pair of directories of four entries
  out of ten kinds (deleted, dangling, circular, `.` and `..`), and 48 geometries:
  both sizes of block and descriptor, inode sizes good and bad, inodes on both
  sides of a group boundary.  In further volumes one block of a directory, at the
  root, below it or below that, lies outside the image, or a pointer block on the
  way to one does. The tree is the name space down to the depth limit, and every
  node is made from its own inode.  The parse fails exactly when, above the limit,
  an entry names an inode that cannot be read, a directory has a block or a table
  of blocks outside the image (ext.rs:636-648), or a file has an extent tree that
  is not all inside.
* **ZipRoundTrip** - records of two bytes, fields of two bits (`W16` = 4) and of
  six (`W32` = 64), so that a third member fills the count, names can be too long
  for their field and comments of every length a field can hold occur.  Up to
  three members are written, with data that looks like a header, a directory or an
  end record, and the output may fail at any byte; or the archive is another
  program's, of up to three entries out of twelve (compressed, encrypted by either
  header, of clashing and odd names, 64-bit), with its directory in the right and
  in the wrong place.  What the bytes of a piece spell besides its own fields is
  the constant `Spelled`: of any piece (a local header with its name, a central
  record, the end record itself) it may name an end record that a search finds in
  the middle of it.  In the run a name spells one, and so do some values of the
  counts, the size and the offset of the end record (zip.rs:524).  An archive of
  the writer is read back, one that was cut off is refused unless what is in it of
  a member, its data, its name or its fields, holds an end record, comments do not
  hide the end record, a location is always that of plain data, and the last file
  of a path wins.  An archive whose own end record spells another one behind its
  first byte, and one whose members, records or names overflow their fields, is
  not held to be read back (`Fits`).  **ZipCount**: an archive with as many
  members as the count can hold is refused by its own reader (zip.rs:520).
  **ZipStale**: a compressed or encrypted entry that follows a plain one of its
  name keeps that one's location under its own size (zip.rs:325), against
  zip.rs:24-28.

* **Images** - one image of any kind, sound or damaged, is read from start to end.
  Discs of up to 40 sectors with an ISO 9660 side, a Joliet side, Rock Ridge names
  in parts, directories of two sectors with records that are cut off, roots and
  subdirectories outside the image or circular, and a UDF side: anchors at each
  candidate, one to three volume descriptors in any order, a metadata partition, a
  file set that is not where it should be, allocation of every kind, identifiers
  in both encodings.  NTFS volumes of up to seven records beside the MFT's own,
  with names of every namespace, deleted records and circles, run lists with
  holes, records on which a read fails, record sizes down to one byte, and
  attributes that end before their own header does, and a caller who has or has
  not asked `detect` before.  SquashFS images with compressed blocks and
  fragments, entries that are cut off, and directories that go on in a second
  metadata block.  Disks with a GPT, an MBR, both or neither, names that are
  equal, empty or hold a slash, lengths that saturate.  Each container with every
  header a few sizes allow.  The tree is what the format's own structures
  describe, stated over them without the reader's steps; a UDF side is found
  whatever is an error in the ISO 9660 side; ranges are the files; partitions are
  found by their names; a located disk lies within its file; the sizes of
  directories are the sums of their files modulo the word; only a disc as deep as
  the stack makes the reader abort.  What is no error but ends the call is part of
  the properties: a healthy UDF side is not reached when the ISO 9660 side is as
  deep as the stack or has a Rock Ridge name of four bytes
  (`AnyHealthyFileSystemIsFound`); an NTFS volume is an error for an unsound boot
  sector and for a failing read, and a panic for a record too short
  (`NtfsTreeIsTheNameSpace`); a SquashFS tree is the image's if each directory
  lies in one metadata block (`InOneBlock`). `CallDepth` = 3 stands for the stack
  of the thread: the trees go one level deeper than it, so that it is reached and
  exceeded.  **UdfExtents**: a UDF file of two extents is given one range from the
  first (udf.rs:704).

The bounds are in the `.cfg` files (`Chunk`, `ImageSize`, `MaxBlocks`,
`MaxMembers`, `PathGuard`, `MaxDepth`, `Fat12Limit`, `Fat16Limit`, `Direct`,
`Fan`, `MaxGaps`, `MaxAbsent`, `Top`, `MaxExtents`, `W16`, `W32`, `CallDepth`,
`NtfsDepth`, `SquashDepth`, `RecordGuard`, `Word`, and the sizes and windows of
the formats) and in the `MC` modules.  `CHECK_DEADLOCK` is off everywhere because
every call returns.

**Fairness.**  The specification of each component has weak fairness on its whole
next-state relation and no more (`Images` and the run of the copies, which check
no liveness, go without): the code is a straight loop of one thread, which always
takes its next step, while which step that is (a short read, a failure) is never
assumed.  Termination is checked where a loop follows the image and could run on:
the links and passes of HFS+, the chains and directories of FAT.  That the walk of
ext's extent trees stays within its limit is proved. The other loops count down to
a bound in plain sight.

## Where the code and its documentation part

Five disagreements have a run of their own (HfsNested, TarPaxSize, ZipCount,
ZipStale, UdfExtents).  The models contain these others as well; each property is
stated so that it says what the code does:

* An HFS+ file whose folder is missing from the catalog lands in the root
  (hfsplus.rs:593 breaks with an empty path); "silently drop" is the comment at
  hfsplus.rs:709.
* `cnid_path` follows parents through at most 1000 folders (hfsplus.rs:581): the
  path of a file that lies deeper begins in the middle, and it is dropped, or
  lands in a folder near the root that has such a path.  `Healthy` therefore asks
  that no folder lies deeper than `PathGuard` (3 in the run, which has folders as
  deep as that), and that CNID 0 is no folder, because `cnid_path` stops below it
  too (hfsplus.rs:587).
* The nodes of an HFS+ catalog are looked for behind its first extent
  (hfsplus.rs:409), though "the catalog file extents in the volume header"
  (hfsplus.rs:333) may be several: of a catalog in pieces other data is read.
* A TAR entry with an absolute name, or with two slashes in a row, becomes a
  directory without a location: its node is created without the empty part and
  looked up with it (tar.rs:289, 301; the documentation at tar.rs:18 says regular
  files are located).
* A TAR file entry below which another entry lies keeps its children (tar.rs:305),
  which "Empty for files" (tree.rs:24) rules out.
* The TAR archive of no members begins with zero blocks and is refused by the
  reader (tar.rs:358), though the writer's documentation calls its output valid
  (tar.rs:384).
* A hole among ext's direct pointers ends them (ext.rs:504), so that blocks behind
  it are left out and blocks past the size come in their stead (ext.rs:485-487).
* An ext extent of 32768 blocks is taken for an unwritten one (ext.rs:400).
* ext's inode size is not validated as the comment says (ext.rs:206 and 208).
* The key of a ZIP name keeps the slash it begins with (zip.rs:308), against
  "without leading slash" (zip.rs:291), so that "/a" and "a" are two nodes of one
  name; a name with two slashes in a row stays a directory.
* The anchor of a UDF disc is looked for one sector behind the last and 255 before
  it (udf.rs:122, 130), so that neither "sector N" nor "N-256" of the comment
  (udf.rs:115) is looked at.
* The flags of a UDF file entry are taken from its byte 18, inside the file's ICB
  tag (udf.rs:462), and the partition an ICB names is not used: with a metadata
  partition the data of files is looked for in it too (udf.rs:328-384).
* "Parsers return `Err` (never panic) on bad input" (src/README.md:305; also
  SECURITY.md:75, iso9660.rs:34).  A Rock Ridge `NM` entry may be four bytes long
  (iso9660.rs:268), but its flags are read from a fifth (iso9660.rs:274) and its
  name is sliced from a sixth (iso9660.rs:280); an NTFS record may be shorter than
  the 24 bytes looked at in each (ntfs.rs:222, 231), and an attribute than its own
  header.  The readers panic, and so do the models (`IsoPanics`, `RecordPanics`).
* NTFS: every `$DATA` attribute sets the size, a named stream's too, and a
  location stays from an earlier one (ntfs.rs:535-566); a record with several
  names is listed once; the halves of a run's first byte are taken for each other
  (ntfs.rs:404-405).
* SquashFS: the start of a directory or inode block is an offset in the format and
  a count of blocks here (squashfs.rs:242); of a directory that goes on in another
  block only the first is read (squashfs.rs:431), which is more than the "3-byte
  trailing overhead" of squashfs.rs:439; an entry that is cut off ends the entries
  of its header and not the listing (squashfs.rs:472, 482).
* WIM: the size an image's XML gives is set and then replaced by the sum of its
  children, 0, when the directory sizes are calculated.
* APFS: object identifiers of volumes are taken for block addresses; the place is
  a product of 64 bits that wraps (apfs.rs:239), or panics where overflow is
  checked.
* MBR: a slot is left out when type and sectors are both zero (mbr.rs:127), not
  when either is (mbr.rs:90).
* The first byte of a GPT partition is a product that wraps, as the sum of two
  saturated lengths does (tree.rs:89); where overflow is checked both panic.
* A comment that holds the end-record signature, or counts, a size and an offset
  that do (zip.rs:524), make the archive unreadable (zip.rs:114); zip.rs:19 says
  comments are skipped.

## What is proved

* `CopyProofs`, of `cat_node`: `CatInvariance` proves the inductive invariant, the
  type invariant with `Bookkeeping`, which relates the bytes sent, the chunk in
  flight and the reader's cursor to the file's range.  The prefix property alone
  is not inductive: that the next write continues the range depends on what is in
  the buffer, and that depends on the cursor.  From it follow `SendsPrefix`,
  `ReadsInRange`, `ReturnIsFinal`, and `Refinement`: every step is a step of
  `Stream` or a stutter.
* `CopyProofs`, of `extract_node`: `Invariance` proves types, `Bookkeeping` and
  `FilesIntact` together.  That files stay intact needs that the file being copied
  is the last one opened, and that no other entry of the host is the same path
  unless it supersedes it; that the extraction stays confined needs that every
  directory on the work list is inside the output directory.  From it follow
  `FilesStayIntact`, `StaysConfined` and `KindsAreKept` (nothing is removed, no
  file becomes a directory or a directory a file), for every tree and every host.
  `OthersAreUntouched` adds that every entry which is not as it was before the
  call is named by a node visited or is a directory above the output directory,
  and `OkIsAMirror` that nodes visited and nodes on the work list are the nodes
  that have to be visited, each once: this needs that a node has one parent, which
  `IsTree` assumes because a `TreeNode` is owned by the one vector it is in.
* `ExtProofs`: `LogicalOrder`, for every number of direct pointers, size of
  pointer blocks, size and set of gaps: the walk only ever goes forward in the
  file, so what it has collected is in order and without repetition; and
  `GapsCostTheirTree`, that a gap costs the rest of what shares its table and no
  more, for which the invariant keeps, of every index passed, whether it was
  collected or is hidden by a gap.  `HealthyTreesAreRead`, that a healthy tree of
  any depth and width yields its leaves from left to right (`Reads`: each open
  node is the child its parent is at, and what has been collected is, level by
  level, what lies before that child).  `DepthBound`: the stack never grows past
  the limit on any tree, a circular one included; and `LocationsAreSound`, that a
  location given is that of the file's data.  The argument is the length: the code
  does not look at where in the file an extent goes, but file systems keep no data
  past a file's end, so an extent in use that is as long as the file must begin at
  its first block. Of the volume, `ParseIsAllOrNothing` and `VolumeIsItsTree`, for
  every volume, circular directories included, every outcome of the two walks and
  every limit, and the types with the depth of the nodes (`VolumeTypes`).  The
  invariant (`Grown`) says that each directory above the limit has the nodes of
  all its records, or is open and has those of the records it has passed
  (`Lists`); that the directory at place `i` of the stack lies at level `i - 1`,
  which is why the length of the stack is a limit on the depth; and that an inode
  with a node is usable and named at most as many levels below the root as the
  node lies (`NodeFits`), so an inode that ends the parse is one the property
  speaks of.  The other way round, a parse that ends well has met every inode
  named above the limit (`AllNamedAreGood`, by induction over the levels).  What a
  directory lists is matched one to one, in order, with the live records of its
  blocks (`Placing`), so that equal numbers before a node and before its record
  say the order is kept.  That a node's inode is where the format has it supposes
  that a volume with 64-bit addresses is of the second revision and has
  descriptors with room for them (`Conforming`): of others the code reads the
  narrow descriptors.
* `FatVolumeProofs`: `LocationsAreTheChains`, for every volume, whatever its table
  and its directories hold.  The property speaks of the chain as the table has it,
  a function defined by recursion; the invariant says that what has been collected
  is a prefix of that function, none of it beyond the volume, and that nodes
  decided earlier keep being right.  `Geometry` bounds the clusters by the boot
  sector, so that a range that starts at a valid cluster ends inside the volume.
  `NothingIsLost`: a directory whose chain ends has its entries, in order, under
  their names.  The invariant (`Dirs`) says that the nodes inside a directory are
  made from the first of its entries while the others wait in its frame, and that
  a frame lies one level below the one before it.  A chain that ends has no
  cluster twice, so it has no more clusters than the volume (`WholeChain`, by
  counting) and is read to its end; the pieces of a tidy long name are put in
  place by their numbers (`TidyNames`).
* `HfsProofs`: `CatalogIsListed`, for every chain of leaves (`Walk`: when the walk
  is at the next link of the chain, what it has listed is what the leaves before
  it hold, and `Bound`: it has not read more nodes than that), and
  `FilesHaveTheirLocation`, for every fork: the extents are runs of blocks one
  after the other, so that a file in one run is one extent when they are as few as
  they can be (`OneRunIsSingle`), and the other way round (`SingleIsOneRun`).  The
  limit on the nodes read wraps with a catalog of 2^32 - 1 nodes, which `IsWhole`
  leaves out. Then `FoldersArePlacedOnce` and `TopLevelIsComplete`, for every
  volume and every order of the hash map.  The invariant has three parts: the
  folders and the lists of those still to be attached are as they should be
  (`TreeShape`); a folder that is no placeholder any more has exactly its parent
  as holder, and no list of children has an element twice (`Placement`); and a
  folder under the root is attached or still ahead in the pass (`TopLevel`).
  `FilesAreWhereTheyBelong` is `FilesFollowFolders`, for every volume whose
  catalog is `Healthy`: by induction on how far a folder lies below the root, the
  names of its path lead down to that folder if it and all above it are attached
  and nowhere if not (`PathLeadsToFolder`), since a list of children holds the
  folders that name its owner as their parent and no other, and their names differ
  (`NameLeadsToFolder`).  The invariant (`FollowFolders`) says it of the files
  handled so far; no placeholder moves any more when their turn comes.
* `TarProofs`: `OverridesReach` and `EntriesStayApart`, for every archive, cut
  off, damaged, or with data that looks like headers; and `LastWins`, for every
  order of its entries.  The headers are counted off by a function defined by
  recursion (`Stops`), and the invariant says that the scanner is at one of them,
  that what is pending is what the headers since the last entry override
  (`Holds`), and that every entry is that of a header already passed with its
  payload.  Of the tree it says that it holds all that lies above each node,
  without which `attach` would drop some, and the kind and the place of a node
  apart, since a directory entry changes the one only.  `LastWins` needs that
  `Components` of a name without empty parts is the name. `WritingIsReadBack` is
  the round trip, for every list of members but the empty one (see above): every
  block of the archive is the header, the data or the padding of the member it
  belongs to (`Layout`, over the sums of the blocks before it), and the reader
  stands at the header of the first member it has not listed.
* `ZipProofs`: the same for ZIP.  For every archive, `CommentsSkipped` (the reader
  goes by the last signature, `GoesByTheLast`, and a record whose comment ends the
  file is it), `LastWins` and `OnlyPlainIsLocated` (by `Growing`: every node of
  the map has the directories above it, the kind and size of the last file of its
  name, the location of the last plain one), and `CutOffIsRefused` (by `EndIsCut`:
  an end record among what was written of members that have none is not complete).
  `WritingIsReadBack`: at each stage of the writer the headers and data of the
  members, then their records, are where the sums of the sizes before them put
  them (`Stage`); the last signature is the writer's, since nothing behind it is
  one; and the reader stands before the record of the first member it has not
  listed (`Reading`).  `Fits` is what the fields have room for, and that the end
  record spells no other; what happens beyond it is the finding of ZipCount.
  Nothing is assumed of what names and the other fields spell.
* `ImagesProofs`, for every set of well-formed images and every value of the
  limits. The readers of ISO 9660, UDF, SquashFS and NTFS go down into directories
  in the same way, so that their trees are proved about once, in `Lemmas`.  A
  reading (`IsReading`) says what a reader makes of its entries: which get a node,
  what the node of one has, what is in it, and down to which depth there are
  nodes.  `Built` is the invariant of such a reader: every node stands for
  something that is in what its directory stands for, one level deeper; the frames
  of the stack are directories, frame `i` one of level `i`; and whatever is in
  what a node stands for has a node, waits in a frame, or lies at the last depth.
  Each step keeps it (`BuiltSkip`, `BuiltFile`, `BuiltDirectory`, `BuiltReturn`),
  and with an empty stack the paths of the nodes are the names that are there
  (`NamesAreNodes`, by induction over the levels).  What is proved of each format
  is that its steps are such steps:
  - `IsoTreeIsRight`, `UdfTreeIsRight` and `AbortsAreDeep` by `DiscInv`: the scan
    has the last descriptor of each kind so far (`Scanned`), then the tree is
    built from its records or from the identifiers of the UDF side; the stack runs
    out at a directory that is as deep.  `HealthyDiscsAreRead` by `HealthInv`:
    when a reader gives up, its side of the disc is not whole, and when the call
    ends in the middle of a side, that side is too deep or has a name too short,
    for which `VdsScanned` keeps what the volume descriptors passed have said.
  - `SquashTreeIsRight` by `SquashInv`, for images with each directory in one
    metadata block; with, for an image that is refused, an entry that cannot be
    read or is too deep.  What the reader lists, header by header, are the entries
    as the property finds them, looking from each entry back to its header
    (`DirectoryEntries`).
  - `NtfsTreeIsRight` and `NtfsRangesAreRight` by `NtfsInv`: what has been
    collected of the records below a number is each record in use, once
    (`Collected`); the name a record is listed by is the one its attributes give
    it, looked for in the other order (`NameIsGiven`).  A record is in one folder
    only, so that it has one node (`Sole`), and the nodes can be counted.  The
    scan has passed only records that could be read, so that an error needs a read
    that fails, and a panic a record too short.  Files of one run are the only
    ones located outside their record.
  - `PartitionsAreFound` by `DiskInv`: the names of the partitions of a table
    differ and have no slash, so `find_node` finds each.  `ContainersHold` by
    `ContainerInv`.
  - `SizesAreTotals`: the sizes are set from the last node to the first
    (`DirectorySizes`), each the sum of what the children have; that this is the
    sum of all files below, modulo the word, replaces one directory after the
    other by what is in it (`TotalsBelow`).  It holds of all readers composed in
    `Images`, as each returns through `Return` or builds a tree of one level.
* `Lemmas`: the least and the greatest element of a set of numbers, induction
  stated with sets, that a function defined step by step exists, sums, filtered
  lists and joined sequences as such functions, rounding, and ranges of the image.
  It rests on "<" being well-founded, and is how the proofs reason about recursive
  functions.

The assumptions are those named in the modules: a positive chunk size, an image
size, positive sector and block sizes and fields of at least one bit, trees,
hosts, volumes and archives that are well formed (an archive is a sequence of what
`Units` or `Block` has, in any order; a member to be written has a name and such
data), `NoValue` not a number or a name, `Walked` no number and no list of blocks.
Those of `Images` are on the kinds of values (`ImagesAssumption`: each image is of
its kind, sound or not), on the limits, which are numbers, and on the values that
stand for others: `None` is no number, no record and no Boolean (`TreeAssumption`,
`DiscAssumption`, `UdfAssumption`), a slash is none of the characters names are
made of (`DiskAssumption`), a magic number fits its header
(`ContainerAssumption`), the root of an NTFS volume is a system record
(`NtfsAssumption`).

Only model-checked: liveness, which is out of the prover's reach; every invariant
of a passing run is a theorem.  Only proved: `PrefixOfRange` (which
`ImplementsStream`, checked, implies) and `NothingAfterReturn` of `CatNode`,
`KindsKept` of `Extract`, and the type invariants of these two, of `ExtExtents`,
of `ExtVolume`, of `HfsTree` and of `ZipReader`.

## What is abstracted and what is not modelled

* Bytes are numbers: the byte of an image at an offset is the offset.  Names are
  sequences of parts, so that separators are kept and letters are not.
* Logging, progress output and error texts are left out; kinds of errors are kept
  where a caller tells them apart.
* The host of `Extract` has no symbolic links and nobody else writes to it, which
  the documentation of `extract_node` asks for.
* A FAT volume is given by what `fat_entry` returns for a cluster and by the slots
  of its clusters; the packing of 12-bit entries and the decoding of names to text
  are not modelled.  Nor are a long name with twelve octal digits of size in a TAR
  header (tar.rs:417) or a FAT volume on which 2^32 directories are listed before
  the depth limit ends the call (fat.rs:463).
* A sector, record, inode or header in `Images` is known by what the parser finds
  in it; its bytes, text encodings and checksums are not modelled, but for the
  identifiers of UDF.  A read of a file that returns less than it could
  (mbr.rs:97) is left out.
* The trees of HFS+, TAR, ZIP, FAT and ext end in `calculate_directory_size` too;
  their modules keep the sizes of files only, and `ParsedTree` has what that
  function makes of them.
* `find_node` returns the receiver when the rest of a path is its own name
  (tree.rs:121): "/a/a" finds "/a".  `ParsedTree` has this as the code has it.
* The three ext modules meet in an inode: `ExtVolume` takes an inode's data as
  given, the other two say what the code finds of it.  A block is known by its
  position in the file.
* `detect` of HFS+, FAT and ext, which reads a signature and puts the cursor back
  as the others do, and the decoding of their names.
* The SIMD checksum: a computation on words, with its own tests.

## Plan

In this order; each step is a module, its `MC` module and its runs, and the
theorem named with it.

1. Done: the copies (`CatNode`, `Extract`), HFS+ (`HfsTree`), TAR and ZIP with
   their round trips, FAT, ext in one run.
2. Done: `find_node` and directory sizes, detection, ISO 9660, UDF, NTFS,
   SquashFS, partition tables, containers, memory map (`Images`).
3. Left: an abstract parser that `TarReader` and `FatVolume` implement (a tree
   whose located ranges are the files' data), and its composition with `CatNode`.
4. Done: proofs of the copies, of both round trips, of the trees of HFS+, TAR and
   ZIP, of the walks and locations of HFS+, FAT and ext, of the trees of FAT and
   ext, and of every reader composed in `Images`.
