---------------------------- MODULE MCPageScripts ---------------------------
(***************************************************************************)
(* The jobs TLC runs, and what other implementations of the same functions *)
(* give: OpenSSL's; Keccak's reference for SHA-3, which pads as the        *)
(* submission of 2011 did; the test vectors of RFC 4503 for Rabbit.        *)
(***************************************************************************)
EXTENDS PageScripts

MCObjects == {1, 2}

\* Ten bytes again and again: letters, and two characters of UTF-8 that take
\* two and three bytes; 0..255 as numbers.
Unit == <<97, 195, 169, 98, 228, 184, 173, 99, 100, 101>>
MCText == [i \in 1..200 |-> BitsOf(Unit[((i - 1) % 10) + 1])]

Digits == "0123456789abcdef"
NibbleOf == [d \in {SubSeq(Digits, k, k) : k \in 1..16} |-> CHOOSE k \in 0..15 : SubSeq(Digits, k + 1, k + 1) = d]
OfHex(str) ==
    Written([i \in 1..(Len(str) \div 2) |->
                BitsOf((16 * NibbleOf[SubSeq(str, (2 * i) - 1, (2 * i) - 1)]) + NibbleOf[SubSeq(str, 2 * i, 2 * i)])])

Job(kind, hasher, key, entry, stops, size, iterations) ==
    [kind |-> kind, hasher |-> hasher, key |-> OfBytes(SubSeq(MCText, 1, key)), entry |-> entry, stops |-> stops,
     size |-> size, iterations |-> iterations]

MCJobs == {
    Job("hash", "MD5", 0, "Utf8", {13, 57, 70}, 0, 1),
    Job("hash", "SHA1", 0, "Latin1", {3, 55, 56}, 0, 1),
    Job("hash", "SHA224", 0, "Hex", {55, 64}, 0, 1),
    Job("hash", "SHA256", 0, "Base64", {2, 56, 64}, 0, 1),
    Job("hash", "RIPEMD160", 0, "Utf16", {56, 64}, 0, 1),
    Job("hash", "SHA384", 0, "TypedArray", {111}, 0, 1),
    Job("hash", "SHA512", 0, "Utf16LE", {112, 128}, 0, 1),
    Job("hash", "SHA3-224", 0, "Hex", {143}, 0, 1),
    Job("hash", "SHA3-256", 0, "Latin1", {5}, 0, 1),
    Job("hash", "SHA3-384", 0, "Utf8", {104}, 0, 1),
    Job("hash", "SHA3", 0, "TypedArray", {71, 72}, 0, 1),
    Job("mac", "MD5", 7, "Latin1", {5, 64}, 0, 1),
    Job("mac", "SHA1", 65, "Utf8", {10}, 0, 1),
    Job("mac", "SHA256", 64, "Hex", {9, 55}, 0, 1),
    Job("mac", "SHA3", 7, "Latin1", {3}, 0, 1),
    Job("pbkdf2", "SHA1", 7, "Latin1", {9}, 7, 2),
    Job("evpkdf", "MD5", 7, "Latin1", {8}, 10, 2),
    Job("shortcut", "SHA1", 0, "Latin1", {64}, 0, 1),
    Job("macShortcut", "RIPEMD160", 7, "Latin1", {8}, 0, 1),
    Job("hex_sha1", "SHA1", 0, "Latin1", {3, 56}, 0, 1),
    Job("str_sha1", "SHA1", 0, "Latin1", {64}, 0, 1),
    Job("b64_hmac_sha1", "SHA1", 65, "Latin1", {9}, 0, 1)}

\* HMAC with the digests that hold more words than they count.
TruncatedJobs == {Job("mac", "SHA224", 7, "Latin1", {5, 64}, 0, 1)}

\* Function, hasher, bytes of the message, digest.
Vectors == <<
    <<"hash", "MD5", 0,
      "d41d8cd98f00b204e9800998ecf8427e">>,
    <<"hash", "MD5", 13,
      "26f3027a0cf4bf07a136772a48f0140e">>,
    <<"hash", "MD5", 57,
      "15ab396014453226eaabaf5204128fc7">>,
    <<"hash", "MD5", 70,
      "372cc710b04b5d926f4f7b458a0f03aa">>,
    <<"hash", "SHA1", 0,
      "da39a3ee5e6b4b0d3255bfef95601890afd80709">>,
    <<"hash", "SHA1", 3,
      "c6324935eb63d2b03c64e9b9e57f98134ef8bea8">>,
    <<"hash", "SHA1", 55,
      "e01e70191cc82dc31666411f79c7d5fed7ada9f5">>,
    <<"hash", "SHA1", 56,
      "a91de83252ac539e5dda547afcc70005d069ddc8">>,
    <<"hash", "SHA224", 0,
      "d14a028c2a3a2bc9476102bb288234c415a2b01f828ea62ac5b3e42f">>,
    <<"hash", "SHA224", 55,
      "8a6f47a9461c099f4d1a31a07e3f2d7091229a6fa3440229a74feffd">>,
    <<"hash", "SHA224", 64,
      "e97386765da9119448b1a6b846eaf9723e871d7b26f623395d91dcea">>,
    <<"hash", "SHA256", 0,
      "e3b0c44298fc1c149afbf4c8996fb92427ae41e4649b934ca495991b7852b855">>,
    <<"hash", "SHA256", 2,
      "7217e62bfcb0766e8cf1925411011bf777f48d9809bd30a7d7d4287a6daf9f78">>,
    <<"hash", "SHA256", 56,
      "aebef7f84e9602912a6ce6ddcc74ad7c9b30693876a1e474f4e18cd849b1ff38">>,
    <<"hash", "SHA256", 64,
      "4d8275c51562a8b92682772141ca0d1cb1a96edd980474e3d8bb2e3bfb16110b">>,
    <<"hash", "RIPEMD160", 0,
      "9c1185a5c5e9fc54612808977ee8f548b2258d31">>,
    <<"hash", "RIPEMD160", 56,
      "4a403473c53ce1618e2ccbfcf340f347c84595b4">>,
    <<"hash", "RIPEMD160", 64,
      "efec739f827bab31841095b0716e528b570eb3fe">>,
    <<"hash", "SHA384", 0,
      "38b060a751ac96384cd9327eb1b1e36a21fdb71114be07434c0cc7bf63f6e1da274edebfe76f65fbd51ad2f14898b95b">>,
    <<"hash", "SHA384", 111,
      "ad6b7edddac4767d9aba75e2a783c564f6b60d0ecc5111a591bba8fa51cd8afe947dc6a7ebca7dadb9141649e915c128">>,
    <<"hash", "SHA512", 0,
      "cf83e1357eefb8bdf1542850d66d8007d620e4050b5715dc83f4a921d36ce9ce47d0d13c5d85f2b0ff8318d2877eec2f63b931bd47417a81a538327af927da3e">>,
    <<"hash", "SHA512", 112,
      "b06ac5258cb0b12df9c91adaf9f939a271f2a339dec736a225115fb9b2fa4ae6f8006d9b7fdabecfc01babe3bd6092464c6d1c0eb43c8b7b4fea4e6bdb24a943">>,
    <<"hash", "SHA512", 128,
      "ec763b890383f74ff63b55ed92f6600656238a0e628dee8082e7aee86d5c37b031d08185ded7bca9d7e1b939049835c3db34b090552a0b343819e7f295ce7599">>,
    <<"hash", "SHA3-224", 0,
      "f71837502ba8e10837bdd8d365adb85591895602fc552b48b7390abd">>,
    <<"hash", "SHA3-224", 143,
      "328f668523b34f4aa32125c278fc5f9ead69b84d86aa1db76e6c0e69">>,
    <<"hash", "SHA3-256", 0,
      "c5d2460186f7233c927e7db2dcc703c0e500b653ca82273b7bfad8045d85a470">>,
    <<"hash", "SHA3-256", 5,
      "710d1a8ec03d484c17606419bfc75b3f6b42526b8d5c6c9b0a384fc31a45da7c">>,
    <<"hash", "SHA3-384", 0,
      "2c23146a63a29acf99e73b88f8c24eaa7dc60aa771780ccc006afbfa8fe2479b2dd2b21362337441ac12b515911957ff">>,
    <<"hash", "SHA3-384", 104,
      "80aff1f3b7fce076dc14a13d3a156f5d9a60a6da4b5c64b60faca4fd000ec8fb83cfc4f6920abe974290e48aa0ff8b2b">>,
    <<"hash", "SHA3", 0,
      "0eab42de4c3ceb9235fc91acffe746b29c29a8c366b7c60e4e67c466f36a4304c00fa9caf9d87976ba469bcbe06713b435f091ef2769fb160cdab33d3670680e">>,
    <<"hash", "SHA3", 71,
      "e641aef4c70021b2147665d147bcce8c26e9c1440e13ab75a9802807bcf242837bd568e208db7f7f8172e18c790e032cdbebb58b384083de2d81ac832f077dff">>,
    <<"hash", "SHA3", 72,
      "e203b7a72c752e937e42ae00b81029c0065c17b3dc8df6e273fa2aee09efa377dc769d32889576763fb0be9a7c15adbdf38fc33842502a9ae97512d87470c540">>,
    <<"mac", "MD5", 0,
      "09f9eb883dd86480710a3329db9b98dc">>,
    <<"mac", "MD5", 5,
      "faa22de2f7ef5e447bd7dd21f207f899">>,
    <<"mac", "MD5", 64,
      "41eb6519ba4767212f86ec571a026e38">>,
    <<"mac", "SHA1", 0,
      "a50ffb4b6e94757755fe20d8e351863cd8774883">>,
    <<"mac", "SHA1", 10,
      "60d6275562dfb3265bdd7adb4de22ba826529a85">>,
    <<"mac", "SHA256", 0,
      "62a5b27b552300ac34d95c0824e97df64a80b985bafa5361528e796bd17162bc">>,
    <<"mac", "SHA256", 9,
      "c76083567ffb6298fba50d228d15d5227e03e5763e65de248df69cf2eb20e3e0">>,
    <<"mac", "SHA256", 55,
      "71b4f0932f1a87b620ce468e3ca07810da9a1a26540836ad91509cf7a476106b">>,
    <<"mac", "SHA3", 0,
      "d6296af85bf7098e9fb453fa0050c1e9bb918438ac60c97d0a5d915767b300208739962f89560fe76b229af7fcfb3c18349ce30c035f3970bca3b15a2d586e6c">>,
    <<"mac", "SHA3", 3,
      "46e73c51fbc5a2fc9cbc01f0caa5e4dd90850b9787894c3e6ef87dad11d7459fcc3214f3234f7cda64ff378e5414a858b830a868729e87767d02542d86f9eb34">>,
    <<"pbkdf2", "SHA1", 9,
      "af461b8f20589c612467055f7b27129e1b392ec69dad24c46318d21f">>,
    <<"evpkdf", "MD5", 8,
      "6124c85da027f92e8aa14964e88073d55ebd0590ea0c018c411938db1c4aa73e6cd6c4844a3c5705">>,
    <<"shortcut", "SHA1", 64,
      "5d0d55370da91719e1b44715d9d17aedf1ceb807">>,
    <<"macShortcut", "RIPEMD160", 8,
      "ccc279971f2c72ff52a26abd9b75b0d74cda5f38">>,
    <<"hex_sha1", "SHA1", 3,
      "c6324935eb63d2b03c64e9b9e57f98134ef8bea8">>,
    <<"hex_sha1", "SHA1", 56,
      "a91de83252ac539e5dda547afcc70005d069ddc8">>,
    <<"str_sha1", "SHA1", 64,
      "5d0d55370da91719e1b44715d9d17aedf1ceb807">>,
    <<"b64_hmac_sha1", "SHA1", 9,
      "a30e042e37011f6559e1367b9b0537f082cc2802">>,
    <<"mac", "SHA224", 0,
      "25285c2c4e2a971c20a8e22e8095b83bd2394860247af3d7d5393fb5">>,
    <<"mac", "SHA224", 5,
      "fcd4bd1a60ef7556c5e8c361e95d0f798c036782d9045ce8370f9484">>,
    <<"mac", "SHA224", 64,
      "9857727c07b329cba537ea629803dfdaa80102dc26834a127e81e861">>>>
Given == {<<Vectors[k][1], Vectors[k][2], Vectors[k][3]>> : k \in DOMAIN Vectors}
MCStandard ==
    [g \in Given |-> OfHex(Vectors[CHOOSE k \in DOMAIN Vectors : <<Vectors[k][1], Vectors[k][2], Vectors[k][3]>> = g][4])]

MCMessage == SubSeq(MCText, 1, 100)

Cfg(mode, padding, iv, drop) == [mode |-> mode, padding |-> padding, iv |-> OfBytes(OfHex(iv)).words, drop |-> drop]
Task(cipher, cfg, keyHex, size, stops, form, call, standardHex) ==
    [cipher |-> cipher, cfg |-> cfg, key |-> OfBytes(OfHex(keyHex)), size |-> size, stops |-> stops, form |-> form,
     atOnce |-> call # "objects", password |-> call = "password", salt |-> OfBytes(OfHex("0102030405060708")),
     fill |-> OfBytes(OfHex("c10ad07e")).words[1], standard |-> OfHex(standardHex)]

MCCipherJobs == {
    Task("AES", Cfg("CBC", "Pkcs7", "62e4b8ad63646561c3a962e4b8ad6364", 0),
         "c3a962e4b8ad63646561c3a962e4b8ad", 20, {5, 16}, "OpenSSL", "objects",
         "1447bb0cfe7e3b5b1ec65e2f7ca1bea9730fd9f29cc03709b43a3143149279ed"),
    Task("AES", Cfg("CBC", "Pkcs7", "62e4b8ad63646561c3a962e4b8ad6364", 0),
         "c3a962e4b8ad63646561c3a962e4b8ad", 17, {}, "Page", "atOnce",
         "1447bb0cfe7e3b5b1ec65e2f7ca1bea9bb64ae518020b84ba8b1b9ef113cf72b"),
    Task("AES", Cfg("CBC", "Pkcs7", "", 0),
         "c3a962e4b8ad63", 33, {}, "OpenSSL", "password",
         "844ba490f463f55f975ed5db323d87ebc2395ff87d1387e9ff7a124eb7e86b9560cf91adbabd32291dcbff1f08cd19d4"),
    Task("AES", Cfg("ECB", "ZeroPadding", "", 0),
         "c3a962e4b8ad63646561c3a962e4b8ad63646561c3a962e4", 21, {16, 17}, "Hex", "objects",
         "c307ba1d73f155c853010a5622d39366cd580622b88e94ce633b5c2221903c14"),
    Task("AES", Cfg("CFB", "AnsiX923", "62e4b8ad63646561c3a962e4b8ad6364", 0),
         "c3a962e4b8ad63646561c3a962e4b8ad63646561c3a962e4b8ad63646561c3a9", 33, {3, 18}, "Hex", "objects",
         "9f91443db69181753d01c1dc6afc07110e9a39c6f2bd88625aeba9f1c797874cba9e095ae511bb2f4ccae691f46effbf"),
    Task("AES", Cfg("OFB", "Iso10126", "62e4b8ad63646561c3a962e4b8ad6364", 0),
         "c3a962e4b8ad63646561c3a962e4b8ad", 16, {15}, "OpenSSL", "objects",
         "d8418be3295c0509179e49e9fc402c149a2df53493a03188057cec814709de1d"),
    Task("AES", Cfg("CTR", "Pkcs7", "62e4b8ad63646561c3a962e4b8ad6364", 0),
         "c3a962e4b8ad63646561c3a962e4b8ad", 33, {16}, "Page", "objects",
         "d8418be3295c0509179e49e9fc402c14b5b8ce43e949278e15a91c1ff169b5d645618c049eb3efe04de4cc504cbb60e7"),
    Task("AES", Cfg("CTRGladman", "NoPadding", "feffffffffffffff61c3a962e4b8ad63", 0),
         "c3a962e4b8ad63646561c3a962e4b8ad", 32, {17}, "Hex", "objects",
         "d8d5a0258e3cf0f1fd818d1c7c4fd43f36265311fb9f7bac0980fcefa4f112e3"),
    Task("AES", Cfg("CTRGladman", "Pkcs7", "ffff7f01ff00000061c3a962e4b8ad63", 0),
         "c3a962e4b8ad63646561c3a962e4b8ad", 7, {3}, "Hex", "objects",
         "75429fe8942dd4032a50fb1d2139f4e7"),
    Task("DES", Cfg("CBC", "Iso97971", "62e4b8ad63646561", 0),
         "c3a962e4b8ad6364", 0, {8}, "Hex", "objects",
         "21666c12eac9606d"),
    Task("DES", Cfg("CFB", "Pkcs7", "62e4b8ad63646561", 0),
         "c3a962e4b8ad6364", 11, {8, 9}, "Page", "objects",
         "000c0eade20f712d6fe8ba785a0b7da9"),
    Task("DES", Cfg("OFB", "Iso97971", "62e4b8ad63646561", 0),
         "c3a962e4b8ad6364", 8, {4, 8}, "Hex", "objects",
         "000c0eade20f712d9aa2b257efd8f85f"),
    Task("TripleDES", Cfg("ECB", "Pkcs7", "", 0),
         "c3a962e4b8ad63646561c3a962e4b8ad63646561c3a962e4", 17, {8, 9, 16}, "Hex", "objects",
         "7e25488d957720d76d46df72a74f1abaea50adef67c5044e"),
    Task("TripleDES", Cfg("CBC", "AnsiX923", "62e4b8ad63646561", 0),
         "c3a962e4b8ad63646561c3a962e4b8ad63646561c3a962e4", 12, {}, "OpenSSL", "atOnce",
         "7945fafe8855aaedc0ca6633ba44037d"),
    Task("RC4", Cfg("CBC", "NoPadding", "", 0),
         "c3a962e4b8ad63646561c3a962e4b8ad", 10, {3, 8}, "OpenSSL", "objects",
         "000a500961908d70517c"),
    Task("RC4Drop", Cfg("CBC", "NoPadding", "", 2),
         "c3a962e4b8ad63646561c3a962e4b8ad", 6, {4}, "Hex", "objects",
         "54daf66310bf"),
    Task("Rabbit", Cfg("CBC", "NoPadding", "", 0),
         "acc351dcf162fc3bfe363d2e29132891", 16, {}, "Hex", "atOnce",
         "fd924be5607bd28ac54297fd6191c985"),
    Task("Rabbit", Cfg("CBC", "NoPadding", "0000000000000000", 0),
         "00000000000000000000000000000000", 16, {}, "Hex", "atOnce",
         "8c74ac05d3e5601fbcf0353bf745437e"),
    Task("RabbitLegacy", Cfg("CBC", "NoPadding", "", 0),
         "dc51c3ac3bfc62f12e3d36fe91281329", 10, {6}, "Hex", "objects",
         "fd924be5607bd28ac542")}
=============================================================================
