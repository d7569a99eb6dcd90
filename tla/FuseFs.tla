------------------------------- MODULE FuseFs -------------------------------
(***************************************************************************)
(* The FUSE file system of rust-core/src/fs_layer/fuse_fs.rs: open         *)
(* handles, the read cache, the inode map and its copy on the disk.  One   *)
(* request runs at a time.  An inode is the hash of its name, and stands   *)
(* as the name here.  The content of a file is its length, which is all    *)
(* that the cache counts.  Whether a volume loads is left open.  setattr   *)
(* uses a field that no volume has and is left out.                        *)
(***************************************************************************)
EXTENDS Integers, SequencesExt, VecRetain

CONSTANTS
    Names,
    CacheLimit,     \* read_cache_limit
    MaxLength,      \* bound: length of a file
    MaxHandles,     \* bound: handles opened in a mount
    MaxIds          \* bound: random file ids drawn

FuseAssumption == CacheLimit \in Nat /\ MaxLength \in Nat /\ MaxHandles \in Nat

\* A file id is drawn at random or made from the name.
FileIdForName(name) == <<name, 0>>
RandomId(i) == <<"random", i>>
NoId == <<>>
NoEntry == [id |-> NoId, length |-> 0]
NoHandle == [name |-> "none", id |-> NoId, length |-> 0, dirty |-> FALSE]
TornMap == [n \in {} |-> NoId]

VARIABLES
    backing,        \* the backing files, with the id in their header
    inodes,         \* inode_map and name_map: the id of every name
    mapFile,        \* .soteria.inode_map
    handles,        \* open_files
    nextFh,
    cache,          \* read_cache, the entry not used for longest first
    cacheSize,      \* read_cache_size
    drawn,          \* random ids drawn
    hung            \* whether a request waits for a lock it holds itself

fuseVars == <<backing, inodes, mapFile, handles, nextFh, cache, cacheSize, drawn, hung>>

-----------------------------------------------------------------------------
FuseInit ==
    /\ backing = [n \in Names |-> NoEntry]
    /\ inodes = [n \in Names |-> NoId]
    /\ mapFile = TornMap
    /\ handles = [fh \in 1..MaxHandles |-> NoHandle]
    /\ nextFh = 1 /\ drawn = 0
    /\ cache = <<>> /\ cacheSize = 0
    /\ hung = FALSE

\* save_inode_map; that the file was written short, or not, is ignored.
SaveInodeMap == mapFile' \in {inodes', mapFile, TornMap}

\* load_inode_map; a volume that does not load has the id of its name.
LoadedInodes ==
    IF mapFile # TornMap THEN {mapFile}
    ELSE {[n \in Names |-> IF backing[n] = NoEntry THEN NoId
                           ELSE IF n \in loads THEN backing[n].id ELSE FileIdForName(n)] :
             loads \in SUBSET Names}

-----------------------------------------------------------------------------
(* put_read_cache; a cache is [entries, size] *)

Cached(name) == {i \in DOMAIN cache : cache[i].name = name}
Without(entries, name) == Retain(entries, {i \in DOMAIN entries : entries[i].name # name})

\* How much the first n entries hold.
Sizes(entries) ==
    LET upTo[n \in 0..Len(entries)] ==
            IF n = 0 THEN 0 ELSE upTo[n - 1] + entries[n].length
    IN upTo

Fits(c, length) == c.size + length <= CacheLimit \/ c.entries = <<>>

\* The entries that stay when the oldest go until the new one fits.
Evicted(length) ==
    LET Left(n) == [entries |-> SubSeq(cache, n + 1, Len(cache)),
                    size |-> cacheSize - Sizes(cache)[n]]
        n == CHOOSE n \in 0..Len(cache) :
                 Fits(Left(n), length) /\ \A m \in 0..(n - 1) : ~Fits(Left(m), length)
    IN Left(n)

\* Mutant of PutReadCache: an entry that is replaced is not counted again.
PutReadCacheOnce(name, length) ==
    LET left == Evicted(length)
        kept == Without(left.entries, name)
    IN /\ cache' = Append(kept, [name |-> name, length |-> length])
       /\ cacheSize' = IF kept = left.entries THEN left.size + length ELSE left.size

\* An entry of the same name is replaced, and its size stays counted.
PutReadCache(name, length) ==
    LET left == Evicted(length) IN
    /\ cache' = Append(Without(left.entries, name), [name |-> name, length |-> length])
    /\ cacheSize' = left.size + length

\* An entry that is used becomes the youngest.
Touch(name) ==
    /\ cache' = LET e == CHOOSE e \in Range(cache) : e.name = name
                IN Append(Without(cache, name), e)
    /\ UNCHANGED cacheSize

-----------------------------------------------------------------------------
Opened(name, id, length, dirty) ==
    /\ nextFh <= MaxHandles
    /\ handles' = [handles EXCEPT ![nextFh] =
                       [name |-> name, id |-> id, length |-> length, dirty |-> dirty]]
    /\ nextFh' = nextFh + 1

\* lookup answers, or hangs where the file has no inode: the guard of name_map
\* still lives when register_inode locks name_map again.
Lookup(name) ==
    /\ backing[name] # NoEntry /\ inodes[name] = NoId
    /\ hung' = TRUE
    /\ UNCHANGED <<backing, inodes, mapFile, handles, nextFh, cache, cacheSize, drawn>>

\* open, from the cache or the disk.  What does not load or decrypt is empty.
OpenCached(name) ==
    /\ inodes[name] # NoId
    /\ \E i \in Cached(name) : Opened(name, inodes[name], cache[i].length, FALSE)
    /\ Touch(name)
    /\ UNCHANGED <<backing, inodes, mapFile, drawn>>

Open(name) ==
    /\ inodes[name] # NoId /\ Cached(name) = {}
    /\ \E length \in {0} \cup (IF backing[name].id = inodes[name] THEN {backing[name].length} ELSE {}) :
           /\ Opened(name, inodes[name], length, FALSE)
           /\ PutReadCache(name, length)
    /\ UNCHANGED <<backing, inodes, mapFile, drawn>>

\* create registers first; if the volume cannot be saved the entry stays.
Create(name) ==
    /\ drawn < MaxIds
    /\ drawn' = drawn + 1
    /\ inodes' = [inodes EXCEPT ![name] = RandomId(drawn')]
    /\ SaveInodeMap
    /\ \/ /\ backing' = [backing EXCEPT ![name] = [id |-> RandomId(drawn'), length |-> 0]]
          /\ Opened(name, RandomId(drawn'), 0, TRUE)
       \/ UNCHANGED <<backing, handles, nextFh>>
    /\ UNCHANGED <<cache, cacheSize>>

\* A write may leave a gap, which is filled with zeros.
WriteFile(fh, end) ==
    /\ handles[fh] # NoHandle
    /\ handles' = [handles EXCEPT ![fh].dirty = TRUE,
                                  ![fh].length = IF handles[fh].length < end THEN end ELSE @]
    /\ UNCHANGED <<backing, inodes, mapFile, nextFh, cache, cacheSize, drawn>>

\* flush_open, for release and for each dirty handle of flush_all_dirty: the
\* handle is gone, also when the volume cannot be saved.
FlushOpen(fh) ==
    LET h == handles[fh] IN
    /\ h # NoHandle
    /\ handles' = [handles EXCEPT ![fh] = NoHandle]
    /\ \/ /\ h.dirty
          /\ backing' = [backing EXCEPT ![h.name] = [id |-> h.id, length |-> h.length]]
          /\ PutReadCache(h.name, h.length)
       \/ UNCHANGED <<backing, cache, cacheSize>>
    /\ UNCHANGED <<inodes, mapFile, nextFh, drawn>>

\* unregister_inode drops the cache entry, and its size stays counted.
Unlink(name) ==
    /\ backing[name] # NoEntry
    /\ backing' = [backing EXCEPT ![name] = NoEntry]
    /\ IF inodes[name] = NoId THEN UNCHANGED <<inodes, mapFile, cache>>
       ELSE /\ inodes' = [inodes EXCEPT ![name] = NoId]
            /\ cache' = Without(cache, name)
            /\ SaveInodeMap
    /\ UNCHANGED <<handles, nextFh, cacheSize, drawn>>

\* rename registers the new name under the id of the name, whatever the id in
\* the header is.
RenameFile(old, new) ==
    /\ old # new /\ backing[old] # NoEntry
    /\ backing' = [backing EXCEPT ![old] = NoEntry, ![new] = backing[old]]
    /\ inodes' = [inodes EXCEPT ![old] = NoId, ![new] = FileIdForName(new)]
    /\ cache' = IF inodes[old] = NoId THEN cache ELSE Without(cache, old)
    /\ SaveInodeMap
    /\ UNCHANGED <<handles, nextFh, cacheSize, drawn>>

\* The process ends, and the backing directory is mounted again.
Remount ==
    /\ nextFh > 1
    /\ inodes' \in LoadedInodes
    /\ handles' = [fh \in 1..MaxHandles |-> NoHandle]
    /\ nextFh' = 1
    /\ cache' = <<>> /\ cacheSize' = 0
    /\ hung' = FALSE
    /\ UNCHANGED <<backing, mapFile, drawn>>

\* A request that hangs keeps the one thread there is.
FuseNext ==
    \/ /\ ~hung /\ UNCHANGED hung
       /\ \/ \E name \in Names : OpenCached(name) \/ Open(name) \/ Create(name) \/ Unlink(name)
          \/ \E old, new \in Names : RenameFile(old, new)
          \/ \E fh \in 1..MaxHandles :
                 FlushOpen(fh) \/ \E end \in 1..MaxLength : WriteFile(fh, end)
    \/ ~hung /\ \E name \in Names : Lookup(name)
    \/ Remount

FuseSpec == FuseInit /\ [][FuseNext]_fuseVars

-----------------------------------------------------------------------------
\* The counted size of the read cache drifts: entries replaced, unlinked or
\* renamed stay counted.  It drifts only upwards, so that taking an evicted
\* entry off (`*size -= old_data.len()`) never goes below zero, and the cache
\* never holds more than the limit, or one file that is larger by itself.
CacheBounded ==
    LET held == Sizes(cache)[Len(cache)] IN
    /\ held <= cacheSize
    /\ held <= CacheLimit \/ Len(cache) = 1

\* The mount hangs on a file without an inode.  In a mount only one request makes
\* such a file: the release of a handle that was written to, when its name was
\* unlinked or renamed meanwhile, brings the file back (flush_open).
Stranded == {name \in Names : backing[name] # NoEntry /\ inodes[name] = NoId}

OnlyReleaseStrands ==
    \A name \in Stranded' \ Stranded :
        \/ nextFh' < nextFh
        \/ \E fh \in 1..MaxHandles :
               handles[fh].name = name /\ handles[fh].dirty /\ handles'[fh] = NoHandle

\* Every step leaves the read cache within its limit, and only a late release
\* leads to a hang (put_read_cache, lookup and flush_open of fuse_fs.rs).
MountHolds == [][CacheBounded' /\ OnlyReleaseStrands]_fuseVars

=============================================================================
