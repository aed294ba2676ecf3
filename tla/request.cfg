SPECIFICATION Spec
CONSTANTS
    BufSize = 5
    MaxMessages = 2
    MaxReads = 3
    GET_CNT = 3
    NoRes = NoRes
    Message <- MCMessage
    Content <- MCContent
    DeviceKey <- MCDeviceKey
INVARIANTS TypeOK AllFiled StringAsRead OwnBytes AskedIsOpened LookupFault
PROPERTIES OnlyUnknownRefused
