\* Two uploads on one screen, with failures and deletions.
SPECIFICATION Spec
CONSTANTS
    u1 = u1
    u2 = u2
    phone = phone
    office = office
    NoURL = NoURL
    Uploads = {u1, u2}
    Devices = {phone}
    Uploader <- OneUploader
    Admins = {}
    MaxFailures = 1
INVARIANTS
    TypeOK
    CompleteUploadListed
    NoDanglingURL
PROPERTIES
    LibrarySpec
