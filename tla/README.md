# A verification project for zjh_simple

zjh_simple is a management back end in Java: Spring Boot *consumers* serve the
browser (login, sessions, access control) and call Dubbo *providers*, which keep
users, roles, menus and buttons in MySQL. Redis holds the shared sessions, the
login counters and the topic over which providers tell consumers that the access
rules have changed. The pages of the consumers bring a JavaScript library of
hashers and ciphers (`static/js`), with which they encrypt and digest what they
send.

This directory holds TLA+ models of the parts of the program where the order of
events matters, the TLC runs that check them on small instances, and proofs that
TLAPS checks for every instance. Definitions carry the names of the methods they
model; `PROJECT.json` maps each to its lines.

## Inventory

| Component | State | Operations | Talks to | Correct when |
|---|---|---|---|---|
| Filter chains of a consumer node (`ShiroFilerChainManager`, `RedieShrioConsumerService`, `SystemBeanInitListener`) | staged and live table of chains, roles of each url, monitor, queued messages | `initFilterChains` at start and on every message | MySQL (count, pages), redis topic `url_filter` | chains end up as the committed tables say, no mixture, `/**` last |
| Request resolution (`CustomPathMatchingFilterChainResolver`, filters) | none of its own | `getChain`, `isAccessAllowed` | the live table, without the monitor | a request is answered as the tables say |
| Role-menu assignment (`RoleMenuFunctionServiceImpl`) | `sys_role_menu_function` | add, delete, save a set | publishes to the topic | a save reaches the chains; two saves do not mix |
| Menus (`MenuFunctionServiceImpl`, `MenuFunctionTreeUtils`) | `sys_menu_function` (pid, path, dept) | add, update (move), delete with everything below, tree queries | links and elements (cascade), topic | paths are the ancestors, trees complete and nested, no live rows below deleted ones |
| Elements and roles (`MenuElementServiceImpl`, `RoleServiceImpl`) | `sys_menu_element`, `sys_role`, `sys_role_menu_element` | add, update, delete | cascade | no live link to a deleted row |
| Login and lock (`SystemAdminService`, `CredentialsMatcherRdis`, `AdminLoginShiroRealm`) | redis: verification codes, counter, expiry; `login_count` | `getVerify`, `adminLogin`, `userLoginOut` | redis, MySQL, sessions | comparisons are bounded, a lock is earned and ends, a code is used up |
| Sessions (`RedisSessionDAO`, `ShiroSessionManager`, `RedisCache`) | sessions in redis, master and slaves | create, read, update, delete | every request | no lost update, none after logout |
| Slave rotation (`RedisSlaveTemplateManager`) | a queue of templates | `getSlaveTemlate` | sessions | no template is lost |
| REST token (`TokenFilter`, `TokenService`) | secret keys in redis | issue, delete, check | the provider's services | only timely requests of known members pass |
| RPC gateway (`AddplusContainer`, `UserAspect`, `CommonAction`) | proxies, thread-local attachments | dispatch by name | Dubbo | a call carries the identity of its own request |
| Upload to object storage (`OssServiceImpl`, `FileUploader`, `AliOssUpload`, `FileUtils`) | pool per file; static list of parts, object name, client | split, upload, await, complete, close | the storage service | the object is the file, failures are earned, every upload ends |
| Users (`UserServiceImpl`) | `sys_user` | add, update, delete | login | one live row for an account |
| Crypto library of the pages (`static/js/components`) | per object: buffer, chaining value, key schedule, mode and its previous block | create, `update`/`process`, `finalize`, `reset`, `clone`; encoders, key derivation | the script that calls it, the page at the other end | the result is the standard's however the calls are cut; a message comes back; padding does not |
| Page scripts (`sha1.js`, `aes.js`, `index.html`) | none | `hex_sha1` and its siblings, `encryptByDES`, `decryptByDES`, `encryptBySHA1` | the library, the consumer | the same |
| Operation log, utilities, demo, scheduled task, jQuery, bundles | - | - | - | not modelled: nothing depends on their order |

What is hard in this program: two threads inside `initFilterChains`; tables that
change while it reads them page by page; messages that are sent before a commit,
lost while a node is down, or never sent; requests that read a table that is being
swapped; redis commands of several logins in between each other, and keys that
expire between two of them; administrators whose writes rest on what they read before others
committed; uploads that share static fields; objects that are fed in pieces, reset
and cloned and must forget or keep exactly the right part of themselves; lists that are handed to an algorithm in an order it
does not expect. `PROJECT.json` lists each hazard at its line, with the properties
that watch it.

## Modules

| Module | Models |
|---|---|
| `RoleUrls` | the authority tables as far as the chains use them; the grouped query, its count and its pages |
| `FilterChains` | the provider's changes, the topic, start and crash of a node, `initFilterChains` step by step |
| `FilterChainRequests` | requests at the node, composed with `FilterChains` (extends it) |
| `FilterChainsProofs` | the proofs about `FilterChains` and `FilterChainRequests` |
| `LoginLock` | logins to one account, one redis or database command per step |
| `LoginLockProofs` | the proofs about `LoginLock` |
| `MenuTree` | the lists of the two menu queries and the loop that makes a tree of them |
| `MenuAuthority` | administrators who change menus, links, roles and elements at the same time, over the rows of the tables |
| `MenuProofs` | the proofs about `MenuAuthority` and `MenuTree` |
| `Uploads` | what `OssService.uploadFile` promises, in whole files |
| `MultipartUpload` | uploads in parts: web threads, pool threads, shared static fields, a storage that fails |
| `MultipartUploadProofs` | the proofs about `MultipartUpload` |
| `NatSets` | facts about natural numbers and joined sequences that several proofs use |
| `JsWords` | the 32-bit words of JavaScript as sets of bits |
| `WordArrays` | `WordArray` and the encoders (Hex, Latin1, Utf8, Utf16, Utf16LE, Base64, typed arrays) |
| `Digests32`, `Digests64` | the blocks of MD5, SHA-1, SHA-224/256, RIPEMD-160; of SHA-384/512 and SHA-3 on pairs of words |
| `Hashers` | the buffer (`_append`, `_process`), the paddings, HMAC, PBKDF2, EvpKDF |
| `PageSha1` | `static/js/sha1.js`, which works on strings |
| `BlockCiphers`, `StreamCiphers` | AES, DES, Triple DES; RC4, RC4Drop, Rabbit, RabbitLegacy |
| `CipherModes` | CBC, CFB, CTR, CTRGladman, ECB, OFB; the six paddings |
| `CipherObjects` | `Cipher`, `BlockCipher`, `StreamCipher`, `SerializableCipher`, `PasswordBasedCipher`, the OpenSSL and Hex forms |
| `HashScripts` | a script that digests, call by call |
| `CipherScripts` | a script that encrypts, the text it sends, a script that decrypts |
| `PageScripts` | a page does the one or the other |
| `PageScriptsProofs` | the proofs about the hashing half of `PageScripts`: objects, blocks, cuts |
| `RoundTripProofs` | what is made of bytes is made into the same bytes again: the proofs about text forms, the results of calls that need no object, the modes and the stream ciphers |
| `CipherScriptsProofs` | the proofs about the encrypting half: paddings, streams of calls, key derivation, the two pages |
| `MC*` | the instances TLC checks |

### RoleUrls and FilterChains

`db` is the committed state of the tables: live roles, live menus, links as a set
of pairs (several live rows of one pair are one link), the pairs that have any row, live
or not (`rows`: `batchDelete` counts and removes both kinds), and the menu of each live
element. Deleting one row of a pair by its id removes the link or, if the pair has another
row, leaves it; updating an element changes its menu, its address, or both. `Rows(db)` are the groups of `getMunuElementGroupMethodRole`, `RolesOf`
its `GROUP_CONCAT`, `PageRows` a page in the order of the grouped column (MySQL 5
returns groups sorted). A url is a number, its rank in that order; 0 is the blank
one, which the code skips.

Every provider method is one action, or as many as it has commits: an insert that
commits by itself and the message after it are two (`AddRoleMenufunction`,
`Announce`), `saveRoleMenuFunction` is its read, its writes with the message, and
its commit or rollback. Operations without a message end with their commit. A
message goes to `queued` if the node is up and nowhere otherwise.

`pc`, `scan` and `holder` are the threads in `initFilterChains`, their loop
variables and the owner of the monitor. There is one listener besides the startup
thread in the runs, because the pool of two threads gives one to the subscription;
the proofs allow any number. A thread takes a message, waits for the monitor,
clears and refills the staged table, and copies it entry by entry (`ClearLive`,
`PutFixed`, `PutUrl`, `PutCatchAll`): `LinkedHashMap.clear` and `putAll` are not
atomic for an unsynchronised reader. The order among urls is left open. The fixed
chains are one entry: nothing changes them in the model. `applied` is the roles
filter's map from path to roles: chains are always added through
`otherfilterChainManager`, whose filter instances the live chains share, so the
roles of a url reach requests before the table is swapped.

`latest` is a history variable: whether the latest committed change has been
announced since (`announced`), is still to be (`pending`), was committed after its
own message (`save`), is of a kind that is never announced (`silent`), or its
message or the rebuild for it has failed (`lost`). A start counts as an
announcement: the rebuild at start reads everything.

### FilterChainRequests

A request asks for an element's url. `HasChains`, `Match` and `Lookup` are the
three reads of the resolver, `Filter` is the decision. A request that runs into a
swap may end as an error (the iterator of the map fails, or `proxy` finds no chain
of the name) or be passed on unfiltered (`getChain` returns null). `calm` records
that no rebuild and no change overlapped the request; `granted` what some committed
state of the tables permitted.

### LoginLock

The threads are web threads of any consumer node; the counter, its expiry and the
codes are redis keys, and each redis command is a step. Whether the code and the
password were typed correctly is decided where they are compared. `count = 0` means
that the key does not exist, which is exact because INCR creates it with 1. A
removed key also resets `failed`, the history of comparisons. Unknown and disabled
accounts are refused before the matcher and touch none of this state.

### MenuTree

`table` is any forest of menus as `addMenuFunction` stores it, or with one menu
moved by `updateMenuFunctionById`, which recomputes the path of that menu only.
`dept` comes with the request and is taken to be right. `list` is any sequence that
the ORDER BY of the query allows (for a page: one such list for every menu of the first
level, joined), `hashMap` and `childers` are the structures of
the loop, one visit of the loop is a step.

### MenuAuthority

Here the tables have rows: `menus` the state, father and path of every id, `links`
for every role and menu the number of live rows and whether there are deleted ones
(`batchDelete` removes both kinds, the other operations only mark live ones, so more
need not be told apart), `elements` the menu of every live element. `admin` is the
operation that a thread of the provider has open, with what it was called with and
what it has read. An operation that reads and later writes is two actions, in
between which any other may commit: `saveRoleMenuFunction` computes its two lists
and then deletes and inserts; `addMenuFunction` and `updateMenuFunctionById` read the
father and then write the path; `deleteMenuFunctionById` reads the ids below the menu
and then deletes by path, by id and by id. `Rollback` ends any of them without effect
(an exception, a lost connection). `updateMenuFunctionById` is without a transaction,
but writes once.

The reads of a transaction see the snapshot of its first read, and its writes act on
the committed rows of the moment and lock them until the commit: MySQL's default,
REPEATABLE READ, which the configuration does not change. What is called with is what
the page offers: menus that are there, a father that is not below the moved menu, a
list of ticks without repetition. Nothing in the services checks that; a page that
shows a tree that is out of date could call with less. `updateMenuFunctionById` without a new
father changes nothing the model has.

`crossed` tells an open operation which kinds of operation were committed since it
began; `raced`, `repeated` and `saves` are history variables for the properties.

* `OverlappingSavesAgree`: of saves of one role that overlap, what all of them ticked
  is there, and what none ticked is not. More is not so: a save that ticked a menu
  another one did not tick may win or lose it.
* `OneRowUnlessRepeated`: there is no unique key over role and menu, so two overlapping
  saves do insert a link twice. The property says that nothing else does, apart from
  `addRoleMenufunction`, which does not look.
* `LoneSaveFindsItsRows`: `batchDelete` must find a row or the save fails. Operations
  that mark rows leave something to find; only another save takes it away.
* `OrphansHaveAReason`, `DeletedMenusKeepNothing`: the cascade of a deletion is complete
  but for menus added, moved or linked while it ran and menus whose path a move of the
  father left behind. All of these happen in the runs.

### The crypto library

Words are the sets of the places of their 1-bits, bytes sets of places 0..7, so the
bitwise operators are set operators and addition is carried out on sets. Numbers that
the library stores signed or unsigned are one word: nothing the library does with
them tells the two apart. Loops are functions with an accumulator, written so that
TLC computes a table once. Undefined elements of an array (a hole, a read beyond the
end) count as 0 in a bitwise operator, and the model has them as 0.

`Hashers` and `CipherModes` take the functions on one block as constants,
`DoProcessBlock` and `BlockCipher`; every .cfg gives them the modules' own
`BlockFunctions` and `BlockCipherMethods`.

`HashScripts` and `CipherScripts` are the state machines. An object is its buffer
(`_data`), what has been fed, its chaining value or mode state, and for clones which
of these are its own: `Base.clone` makes an object that inherits everything from the
original, and only what a class clones itself is separate. A job fixes the function,
key, configuration and text form and the places where a script may pause; the actions
are the calls of the library. The pieces of a message, a reset in the middle, a clone
that goes its own way, two objects at once, an empty last piece, decrypting in other
pieces than encrypting: all are behaviours of the runs.

Facts of the library that the model has, and that jobs avoid or properties leave out:

* ZeroPadding on a message that is empty or all zeros leaves no byte to stop at:
  `unpad` loops for ever (`EveryCallReturns` holds for the jobs, whose message ends in
  a byte that is not 0). It also takes real zeros at the end of a message.
* Rabbit and RabbitLegacy differ in that the former swaps the caller's key array in place: a second
  object or a reset with the same array computes another key stream.
* Clones of ciphers and of HMAC share the mode and the inner hasher of the original.
* The counter of CTR is the last word only and wraps around in it.
* Unpadding with a wrong key may give a negative length; decrypting does not check.
* A cipher text that begins with `Salted__` by chance is parsed as salted.
* NoPadding drops what does not fill a block at the end.
* The result of `finalize` is the chaining value itself, not a copy; `reset` makes a
  new array, so it stays what it was.
* `sha1.js` uses the low eight bits of a character; `index.html` gives it ASCII.
* The Base64 alphabet in `static/js/aes.js` has `_` where that of the components has `+`
  (place 62): the text form `Page` of the jobs.

### MultipartUpload

`req` is a web thread in `uploadFile` (`uploadImage` has the same loop), from its
`new FileUploader` to `close`; `tasks` are the part uploads in the pools, each of
which reads the static name, calls the storage and adds its tag. `client`, `key`
and `etags` are the static fields. A file is its length and a part the positions of
its bytes, so that `objects` shows what a completed object contains. Every call of
the storage may fail before or after it took effect. Names are taken to be distinct
(`randomName`); two parts of different files are taken to have different digests (if
they had the same content, exchanging them would change nothing). `uploadFile` skips empty
files, so a call brings the sizes of the others, perhaps none. The first `corePoolSize`
tasks of a pool have a thread each and may read the static name in any order.

Completing is as many steps as another upload can come between: `SortParts` (stably, as
`Collections.sort` does, under the lock of the list), `NewCompleteRequest` (reads the
static name and takes the list itself), `CallClient` (reads the static client), then the
SDK's walk without the lock, an entry at a time (`HasNext`, `NextEntry`: a clear in
between ends the walk early or makes `get` throw), and `CompleteMultipartUpload`, which
sends what was read. `sending` is the request under way.

`fileList` is the answer so far. A stream that does not open makes `multipartFileUpload`
answer null for the file, and the call goes on (`SkipFile`). With `fullPath` the code
makes a url of null as well; the model keeps null, which names no object either way.
A file that cannot be read once it is open throws.

Three history variables serve the properties: `cleared` the files whose list another
call cleared during the walk, `overlapped` the calls that ran beside another one,
`troubled` those that met a failure.

* `StoredIsWholeUnlessCleared`: the code does not promise that what it stores is whole.
  The list may be cleared during the walk, and the storage then completes the object from
  the first parts (run `truncated_object`). The property says that this is the only way to
  lose a part: nothing else that uploads do to each other's lists, names and clients, and no
  failure, ends in anything but the whole file; and even then no byte is of another file,
  comes twice or out of order.
* `KeepsPromise`: `Uploads` is the abstract specification. A call takes its files one after
  the other; each is stored (whole, if the call runs alone; at least a piece in order, if
  not), then named; or skipped, with null in its place; or the call throws. Nothing stored
  is replaced or removed, and an answer names the stored files and no other. Its
  `status` is `req` without the steps in between, the other variables are the same. A
  storage call that takes effect and then fails is a `Store` followed by a `Throw`.

## Runs

| Run | Result | Shows |
|---|---|---|
| `filter_chains` | pass | `MonitorHeld`, `CatchAllIsLast`, `InstallsWhatItStaged`: a swap installs one complete table. `AnnouncedIsVisible`: when the latest change is announced and the node has nothing left to do, the chains are those of the tables. `AnnouncedBecomesVisible`: and this does come about |
| `chain_requests` | pass | `CalmRequestIsDecidedByTheTables`; `ServedWasOncePermitted`: no interleaving of pages, roles and swaps serves a request by a chain that no committed state permitted |
| `save_visible` | violation | the message of `saveRoleMenuFunction` overtakes its commit, and the saved links never reach the chains |
| `login_lock` | pass | `AttemptsAreBounded`, `CountIsEarned`, `CodeIsSpent`, `LockEnds` |
| `login_count` | violation | two overlapping logins are counted once |
| `menu_tree` | pass | `ShownOnce` for every order; `PageTreeIsNested` and `SiblingsInOrder` while paths are current; `FailsOnlyOnStalePaths` |
| `user_tree` | violation | the user's menus are sorted from the top down, and the third level comes out on the top level |
| `menu_authority` | pass | what overlapping operations of administrators may and may not do to each other (see MenuAuthority above) |
| `page_scripts` | pass | `DigestIsStandard`, `CiphertextIsStandard`: whatever the sequence of calls, digests, key derivations and cipher texts are those of the vectors; `BufferHoldsTheTail`; `DigestIgnoresCuts`: a digest is the one that a single call gives; `TextFormsRoundTrip`; `DecryptRestores`: every cipher, mode, padding and text form gives the message back; `NeverReleasesPadding`; `EveryCallReturns` |
| `hmac_truncated` | violation | HMAC with SHA-224 is not the standard's |
| `multipart_upload` | pass | `StoredIsWholeUnlessCleared` and `KeepsPromise` whatever fails or overlaps: `MultipartUpload` implements `Uploads`; `FailsOnlyWhenDisturbed`: uploads one after the other leave nothing behind for the next; `NoPartOutlivesItsUpload`; `UploadEnds` |
| `truncated_object` | violation | another upload clears the shared list while the SDK walks it: an object of the first parts is completed and its name answered |

Every property of a passing run has a mutant of a mapped definition, kept beside
the definition it replaces ("Mutant: ..." or "Wrong: ..."), under which TLC finds it
violated.

### Bounds

* `filter_chains`: two roles, two menus, three elements with two urls and a blank
  one, pages of two rows (so three rows make two pages), two provider threads, two
  operations (a change, a refresh, a failed query or a crash counts as one). Two
  operations are enough for a change between two pages followed by another one's
  message, or a crash after a change; the proofs lift the bound.
* `chain_requests`: one request, one role, two menus, two urls on pages of one row,
  one provider thread, two operations. Requests do not influence one another.
* `login_lock`: two threads, two codes, `maxRetry` 2, one right password, one crash;
  wrong passwords are not bounded, the lock bounds the state space. The bound of
  `AttemptsAreBounded` is reached. `login_count` needs two right passwords and no crash.
* `menu_tree`: all 125 forests of four menus, two sort values, all moves of one
  menu, all pages and all sets of linked menus. Four menus give two siblings on the
  third level, the least on which an order below the sorted levels can go wrong.
  `user_tree` needs three menus.
* `multipart_upload`: two calls, one of none to two files and one of at most one, part size 2, files of 1, 2
  and 3 bytes (a short part, a full one, a full and a short one), pools of two
  threads. Calls that follow each other and calls that overlap are both among the
  behaviours, and a walk of two entries is the least that a clear can cut short.

* `menu_authority`: three administrators, three operations, a chain of three menus and
  one to be added, a role that has the second menu, one element. Three operations are
  an operation that is open while another is committed, and a third before or after
  them: a move and then a deletion that overlaps an addition, or three saves. The
  administrators are interchangeable, which makes the symmetry sound. The proofs lift
  every bound.
* `page_scripts`: one or two objects. Every hasher is fed pieces that end at one to
  three places: for the most of them beside the end of a block or beside the place
  where the length no longer fits (55 and 56 bytes, 111 and 112, the rates of SHA-3);
  SHA3-256 has a message of five bytes only. HMAC keys are below, at and beyond a
  block. Every cipher, mode and padding and the three key sizes of AES occur at least
  once, with messages of up to three blocks (33 bytes for AES, 17 for TripleDES) and
  pieces that end in, at and beyond a block. The vectors were computed with OpenSSL
  and Python's hashlib, a reference Keccak with the padding of the 2011 submission,
  and taken from RFC 4503. Iterations of key derivation are two.
* `hmac_truncated`: one key, two places to cut.

Deadlock is not checked: the systems may come to rest (no message, no login, the
tree is built, all calls have ended, the message has been sent and read, the bound of
operations is used up).

### Fairness

`FairSpec` of `FilterChains` assumes that a listener thread takes a delivered
message and that a thread inside `initFilterChains`, or waiting for a free monitor,
goes on (weak fairness of `OnMessage` and `Rebuild`): the JVM's scheduler. With
one listener the monitor is free whenever its owner leaves, so weak fairness is
enough. Nothing is assumed of administrators, failures, crashes and restarts.
`LoginLock` assumes that a web thread goes on with its login (unless its node
stops) and that redis removes an expired key; nobody has to log in.
`MultipartUpload` assumes that every call that has begun goes on, by its web thread or the
threads of its pool; a call to the storage ends, because `OssClientUtils` sets a socket
timeout and a number of retries. Nobody has to start an upload.
`MenuAuthority` has no liveness: an administrator may leave an operation to its
rollback. In `PageScripts` nothing has to go on either, because the user of a page
may leave; that a call ends is the invariant `EveryCallReturns` instead.

## Findings

* `saveRoleMenuFunction` sends its refresh message before its transaction commits
  (`save_visible`).
* `login_count` loses overlapping logins (`login_count`).
* `getMenuFunctionUserAll` hands its rows to the tree algorithm in the opposite of
  the order the algorithm is written for (`user_tree`).
* Overlapping uploads share one list of parts, which one of them clears while the SDK
  walks it for another: an object is completed without the rest of its file
  (`truncated_object`). The same sharing refuses uploads "due to some parts are not
  finished yet" whose parts are all finished (`CountParts` when another call has added
  to the list or cleared it).
* HMAC with SHA-224 and SHA-384: the inner digest still holds the words that
  `_doFinalize` no longer counts, `concat` takes them along, and the padding is or-ed
  onto them (`hmac_truncated`).

## Proofs

For any sets of threads, logins, requests, roles, menus, elements, any finite set of
urls, any page, part and pool size from 1 and any number of operations, from the
assumptions named in the modules:

* `RoleUrls`, `FilterChains`: sets are disjoint where they must be, urls are natural
  numbers, sizes are positive;
* `LoginAssumption`: the web threads are finitely many, and there is one;
* `MenuAssumption`, `SortKeyAssumption`: menus are a finite set of numbers, as ids are,
  the column `sort` holds integers, and the father of the first level (-1) is no menu;
* `RequestAssumption`: `<<>>`, which stands for "no file yet", is no call;
* `TextAssumption`, `JobAssumption`: the message is bytes, a job names a hasher, a key that
  is a word array, and places in the message; `PieceAssumption`: a script cuts a text between
  its characters, so that parsing a piece gives its bytes. The last one is asked only of the
  text forms whose parsing loses bytes otherwise (Utf8, Utf16, Base64); of the others it
  is proved.
* `MessageAssumption`, `CipherJobAssumption`, `KeyAssumption`, `PaddingAssumption`,
  `ResetAssumption`, `SaltAssumption`: what a script must know to get its message back (see
  *Exchanges of the pages* below).

### Filter chains

* `TypeCorrect`: `Spec => []TypeOK`.
* `MutualExclusion`: `MonitorHeld` is inductive together with `DownIsIdle` (a node
  that is down runs no thread).
* `CatchAllArrivesLast`, `InstallsStaged`: from `StagingInv`, which says what the
  owner of the monitor has staged in each phase; it needs `MonitorHeld`, because
  only mutual exclusion keeps another thread from changing the staged table.
* `Convergence`: `AnnouncedIsVisible` by `TrackingInv`. The idea: once the latest
  change is announced and nobody is queued or waiting for the monitor, the tables
  have not changed since the rebuild in progress began to read (`LastRebuild`), so
  what it has staged is exactly the rows of the pages before its loop variable.
  Lemmas on the operators carry the arithmetic: `RankBounds`, `NextPage` (a page
  adds exactly its rows), `EnoughPages` and `AllPages` (`GetSize` pages reach the
  last row).
### Requests

The second half of `FilterChainsProofs` uses what is known of the node (`NodeInv`: the types
and the serialisation of rebuilds), for any number of requests.

* `RequestTypesAlways`: `RequestTypeOK`, the types of requests and grants (proved only, no
  run checks it).
* `CalmRequestsAreDecided`: by `CalmInv`: what a calm request has found so far is what it
  would find now. The resolver and the filter read without the monitor, and the proof is
  that between rebuilds of an idle node the three reads agree.
* `ServedIsNeverInvented`: by `GrantInv`. A url is in the live or staged table, or has
  roles in the filter's map, only with roles some committed state of the tables gave it
  (`TablesGranted`), and a request that has left the tables behind has that of the chain it found
  (`RequestsGranted`). `ServedWasOncePermitted` is not inductive without both: the roles
  of a url reach the filter before the table that needs them is swapped in.

### Login

* `LoginTypeCorrect` and `CodeIsSpentAlways`: `LoginTypeOK`, and with it that a code
  is gone once a login is past it, for any number of threads and codes.
* `AttemptsAreBoundedAlways`, `CountIsEarnedAlways`: by `CountingInv`, which counts the
  threads that are about to increment, have incremented, or have been admitted and not yet
  compared: the counter is at most the failed
  comparisons plus those threads, and every comparison that is still to come was
  admitted by a counter that had room for it.

### Uploads

* `PartsPartition`: for every file and part size the parts are not empty, not larger
  than the part size, and every byte of the file is in exactly one of them; from
  `Division` (division with remainder), `Products` and `PartCountBounds`.
* `UploadTypesAlways`: the types of calls, tasks and parts (`TypeInv`).
* `NoPartOutlives`: tasks are made only while a call splits its file, and a call
  leaves the wait only when it has none.
* `StoredIsWholeUnlessClearedAlways`: by `ListedIsComplete`: from the count to the end of
  the walk, if nobody cleared the list meanwhile, either neither the list nor the request
  has a part of the file (the list was cleared before the count and filled by others), so
  the storage refuses it, or the list is at least as long as the file has parts, so a walk that
  ends has read as many. A list that the storage accepts has parts of one file in ascending
  order (`AcceptedIsPiece`: joined they are a piece of the file); as many as the file has
  can only be all of them (`LongEnoughIsWhole`, by `AscentIsSteep`), and joined they are
  the file. What joining computes is `FlattenIs`, from the existence of the recursive
  function of `FlattenSeq` (`FlattenSteps`), both by induction over sets of numbers.
* `UploadsImplemented`: `Spec => Promised!Spec`. Init maps to Init; `NewUploader` begins,
  `CompleteMultipartUpload` stores (`CompletionKeepsPromise`), `Clear` names or throws,
  `SkipFile` skips, `Close` answers, and the other steps of calls and tasks stutter.
  `StoredInOrder` and `AnswersInOrder` say that the objects and the answer are those of the
  files before the current one; `OverlapInv`, that only calls that ran beside another one
  had their list cleared.
* `FailuresAreEarned`: by `QuietInv`: while a call runs alone and nothing failed, the
  static client and name are its own, the list is empty when a file is begun, and list and
  tasks together are as many as the parts cut so far. The sort leaves the list ascending
  because no two parts have one number.

### Menu tree

The second half of `MenuProofs`, for any finite set of menus, any forest and any values of the columns.

* The rows: `ForestInduction` (what holds of roots and goes from fathers to children holds
  of all menus) and `ForestRecursion` (a function defined along a forest exists) give the
  tables their meaning: `AddedTables`, `MovedTables`, `StoredTables` say that paths are the
  ancestors, and depths grow by one.
* The lists: `TreesApart` (while paths are current the trees below two menus of the first
  level have no menu in common) and `PageList` say that the list of a page has every menu
  below its first level, once, after all its children, in the order of `sort` among siblings.
  `ListInv` is that, for the list the loop has.
* The loop: `LoopInv`. `ShapeInv`: what has left the map is once among the children of its
  father; `AheadInv`: what has not been visited is in the map; `BehindInv`: what was visited has
  left it, if its father is listed; `OrderInv`: children are in order at all times.
* From these: `TreeTypesAlways`, `EveryMenuIsShownOnce`, `FailureNeedsStalePaths`,
  `PageTreesAreNested`, `SiblingsAreInOrder`.

### Operations of administrators

The first half of `MenuProofs` is about `MenuAuthority`, for any sets of administrators, menus, roles and elements, any forest
whose paths are right at the beginning, and any number of operations:

* `TypeCorrect`, with lemmas on what the end of one operation does to the others
  (`EndKeeps`, `OneStatementKeeps`).
* `SavesAgree`: `OverlappingSavesAgree` is inductive with `SavesRead`: until something is
  written to the links of a role, every open save of it would still turn them into
  exactly what it was asked for; afterwards a save only adds what it was asked for and
  removes what it was not.
* `OneRow` and `LoneSaveSucceeds`: from `RowsInv`, of which `AddsAreNew` says that what a
  save will insert is not there unless a save or link was committed in between, and
  `RowsRemain` that what it will delete is there, if only as a deleted row, unless a
  save was. `RowsChanged` states once what the other operations may do to a row.
* `OrphansExplained` and `DeletedAreBare`: from `MenusRemain`, that what an open operation
  relies on is there unless a deletion was committed in between. `PathGrows` (what is in a
  path is in the paths below it) is why a deletion that finds a father finds its children.

### Hashers of the pages

`PageScriptsProofs` is about `ScriptsSpec`, for every hasher, any message, job, key, cut and
set of objects. The functions on one block are the constant `DoProcessBlock`, which the
theorems take to be `BlockFunctions`, as every .cfg does. What the invariant needs
of them is that they are typed, and that is a theorem of its own, `BlockFunctionsTyped`:
of a chaining value and any words of a block, each of the eleven hashers makes a chaining
value.

* Blocks: `Add` is a recursive function that moves the carries up until none is left;
  `AdditionExists` builds it place by place, and `SumsTyped` says its sums are words. On
  it rest one lemma for a round and one for a block of each hasher (`Md5BlockTyped` to
  `Sha3BlockTyped`); `PassedIs` says that a loop whose passes stay in a set ends in it.
  Of the tables of SHA-3, `RhoOffsetsTyped` and `PiSourceTyped` say that the offsets are places
  of a lane and that every lane is the target of one. That the digests are those of
  the standards is no consequence of this, and is checked on vectors.
* Words and arrays: `WordIsItsBytes`, `BytesOfBytes`, `ConcatJoins` (what `concat` makes
  of two arrays is the array of the joined bytes, whole words or not), `SetAtJoined`.
* Text forms: `HexGivesBack`, `Latin1GivesBack` and `PieceIs`: parsing gives an array of
  the piece's bytes, whatever the script passes it as.
* The loop over blocks: `LoopExists` and `LoopIs` say that the recursive function behind
  `Loop` exists and is the run of its steps; from them `AbsorbedInParts`: absorbing whole
  blocks in two calls is absorbing them in one.
* `Fed(hasher, bytes)` is the object that has been fed these bytes since its reset: the
  whole blocks absorbed, the tail in the buffer, the length in the counter.
  `FedUpdates`: `update` takes `Fed(bytes)` to `Fed(bytes \o more)`.
  `FedFinalizes`: the digest depends on `bytes \o more` only, for each of the paddings (the marks,
  the place of the length and the rounding to blocks move along with whole blocks in front:
  `MarkEndJoined`, `SetAtMoves`, and `PadJoined32`, `PadJoined64`, `PadJoinedSha3`).
* `ScriptInv` is inductive and says that every object that is being fed is
  `Fed(prefix \o the message so far)`, where the prefix is the padded key of an HMAC and nothing
  else for a plain hasher, and that every result is that of a single call. A clone starts
  with the same value and so with the same words. From it `HashTypes`,
  `BuffersHoldTheTail` and `DigestsIgnoreCuts`.

`BufferHoldsTheTail` alone is not inductive: what was absorbed does not show in it.

### Text forms

The first half of `RoundTripProofs` proves `TextFormsGiveBack`: whatever call made a result, and of whatever
message, every text form of it is read back as its bytes. It has two parts.

* The encoders, for any array: `HexRoundTrip`, `Latin1RoundTrip`, `Utf16RoundTrip`,
  `Utf16LERoundTrip` (the UTF-16 forms for an even number of bytes) and `Base64RoundTrip`, for
  the alphabet of the library and that of the page (`AlphabetIs`: in each, a character stands for one sextet, and none is the padding).
  `Base64Parse` cuts bytes out of sextets by shifting, and what it shifts overflows the byte
  it is for: the reader `|=`s it into the words that it has begun. `CombinedGives` says,
  bit by bit for each of the three places of a byte in its group of characters, what a
  shifted pair of sextets holds, and `OredBytes` that the words are right although bits were
  or-ed above each byte: whatever overflows is a bit that the byte before it has there.
  `CharsForIs` gives the length, `Base64CharsAre` the characters up to the padding.
* The results, for any job: that what a call returns is an array is not known from
  `ScriptInv`, which is about objects. `CallsTyped` is inductive with it and says so of every
  result, from `DigestsTyped` (what `finalize` returns), `ShortcutsTyped`, `Pbkdf2Typed`,
  `EvpKdfTyped` (the loops of the two derivations, with hashers that are reset in between) and
  `CoreSha1Typed` (the SHA-1 of the page, from `PageOperatorsTyped` up through its rounds and blocks).

Nothing is assumed of the result; of the job what `JobAssumption` says (sizes are numbers
and there is an iteration).

### Exchanges of the pages

`CipherScriptsProofs` is about the encrypting half of `ScriptsSpec`: `CipherTypesHold`,
`TheMessageIsRestored`, `PaddingIsKeptBack` and `CallsReturn`, for any jobs, message, key,
initialization vector, fill of ISO 10126 and places where the two scripts pause. A
theorem cannot be had for all that a script could do, since not all of it works; the
assumptions on jobs say what a script must know, and each follows from the code:

* `KeyAssumption`: AES makes its rounds of the size of the key (`aes.js:86-92`), for which
  there are 16, 24 and 32 bytes, RC4 divides by it (`rc4.js:33`), and every mode but ECB begins with a block of the initialization vector;
* `PaddingAssumption`: with NoPadding, CBC and ECB drop what does not fill a block, and
  ZeroPadding takes real zeros at the end, and an empty message makes it loop for ever;
* `ResetAssumption`: Rabbit swaps its key in place, so a script that resets it goes on
  with another key (`rabbit.js:26-29`);
* `SaltAssumption`: a text without a salt that begins as one with it is parsed as one.

The hypothesis `BlockCiphersInvert` says of AES, DES and TripleDES that they turn blocks into
blocks and that decryption with a key undoes encryption with it, block by block: a fact of
the standards and of their tables, with none of the library's
bookkeeping in it. The runs exercise it with the modules' own ciphers and every key size. All
that is between a block and a message is proved:

* Modes (`Inverts` and the lemmas after it in `RoundTripProofs`): what a mode and its decryptor
  carry from block to block stays the same on both sides, CTR's counter among it, so the
  decryptor undoes block after block. The stream ciphers combine with a key stream that
  does not depend on the direction (`Keystreamed`); that their states stay permutations
  and words is by the lemmas on RC4 and Rabbit. `BlocksBack` puts the two kinds together: blocks that are
  cut off at the end, as CFB, OFB, CTR and the stream ciphers leave them, included.
* Calls (`Come`, `Progress`): an object that was given t bytes has done a blocks of them, holds the
  rest in its buffer and has returned the blocks but, as a decryptor that unpads, the last one (`KeptBack`).
  That is the invariant of one object, whatever pieces it is fed; it does not mention
  the pieces, so two scripts may cut as they like.
* Paddings (`PaddedBy`): what each of the six adds and takes away again. `NoZeroEnd` is what
  ZeroPadding needs; ISO 97971 puts its own byte in front of the zeros.
* The last call: what pads the message pads the rest of it, and unpadding the rest
  gives the rest back.
* The text between the pages: Hex, the page's alphabet, and the OpenSSL form with and without
  a salt (`Parsed`); the key that EvpKDF makes of a password is long enough for its cipher
  (`DerivesTo`).
* `CipherInv`, which is inductive: either no job is at work, or the sender is where `SenderWork` says
  (its object has made `Progress` in the padded message, whose cipher text the finished one has
  returned) and the receiver where `ReceiverWork` does (what it parsed is that cipher text, and its object
  has made `Progress` in it). One lemma per action shows that it is kept.

`DecryptRestores` alone is far from inductive: it says nothing until both objects are finished.

### Only model-checked

* Liveness (`AnnouncedBecomesVisible`, `LockEnds`, `UploadEnds`), which is outside the
  proof system.
* `DigestIsStandard` and `CiphertextIsStandard` compare with vectors: what a hash or cipher
  computes for all inputs is not a matter of proof, since there is nothing simpler to compare
  it with than the same computation. `DigestsIgnoreCuts` carries what holds of one call over
  to all sequences of calls.
* What the theorems of the encrypting half suppose, `BlockCiphersInvert`.

## Not modelled, and assumptions on libraries

Ant patterns of the fixed chains and the `anon` and `perms` filters; several accounts
(the counter's key is a hash of the account, so accounts with the same hash share one);
`OssServiceImpl.upload` (one call with a client of its own), uploads of equal names
(`randomName` false), downloads and listings; `addRole` and `updateRoleById`, which write
one row that nothing else depends on; queries for display; the formatting of answers.

Left out because what happens is decided elsewhere than in this repository:

* sessions (`RedisSessionDAO`): the session manager of Shiro decides which reads and
  writes a request makes; a caller has its roles in the models;
* the rotation of redis slaves: ten lines over an unsynchronised `LinkedList`;
* the attachments of the RPC context: the Dubbo library decides how long they live;
* users: whether two rows of one account can exist is up to a schema that is not here;
* the REST token: one comparison of two clocks that nothing here sets;
* the operation log, demo services, the scheduled task, configuration classes.

Of the front end: the minified copies of the components and the bundles in `rollups`
and `aes.js`, which repeat the components; jQuery; markup. Of the library: prototype
inheritance as such, `toString` of objects, random words (any value), and typed arrays
other than bytes.

Assumed: Shiro 1.3.2 (`addToChain` configures a path on the filter instance;
`proxy` rejects an unknown name), MyBatis-Plus 3.0.7.1 with `updateById` writing
the `is_deleted` it is given and only rows that are not deleted, MySQL statements atomic
with their own commit outside a transaction and REPEATABLE READ within one, redis
commands atomic. The subscription is in place when the startup rebuild runs, and the web
server answers after that. JavaScript runs a call to its end before the next one.

## What could follow

1. A proof of `BlockCiphersInvert`: the rounds of DES undo themselves, those of AES need
   the arithmetic of its field, of which the code has only the tables.
2. `MenuAuthority` composed with `FilterChains`, so that messages and overlapping saves
   are seen together.
3. The sessions, with a model of Shiro's session manager as an external component.
